---- MODULE Spec2Model ----
(***************************************************************************)
(* Model of the two-stage LLM pipeline of the budgeting backend            *)
(* (backend/llm/pipeline.py, backend/llm/client.py, backend/llm/prompts.py,*)
(* backend/llm/schemas.py).                                                *)
(*                                                                         *)
(* Python values are modelled as tagged records so that values of          *)
(* different Python types can be stored in one dict and compared:          *)
(*   str   [t |-> "str",  s |-> "..."]     None  [t |-> "null"]            *)
(*   int   [t |-> "num",  n |-> 5]         bool  [t |-> "bool", b |-> TRUE]*)
(*   list  [t |-> "arr",  a |-> <<...>>]   dict  [t |-> "obj",  o |-> f]   *)
(* where f is a function from key strings to tagged values.  JSON numbers  *)
(* are modelled as integers (confidence in percent).                       *)
(***************************************************************************)
EXTENDS Integers, Sequences, FiniteSets, TLC

VARIABLES
    pc,            \* position of the process_expense_input coroutine
    user_input,    \* argument of the current run
    input_method,  \* argument of the current run
    calls,         \* requests issued to the generative backend in this run
    ext_out,       \* what the backend did on the extraction request
    val_out,       \* what the backend did on the validation request
    extracted,     \* local `extracted` of process_expense_input
    validated,     \* local `validated` of process_expense_input
    result,        \* the (success, data, error) tuple returned
    clock,         \* datetime.now(), in ticks
    structured,    \* what each generate_structured call of this run produced
    settings,      \* backend.config.settings, read from the environment
    llm_client,    \* outcome of the last get_llm_client(): client or exception
    startup,       \* outcome of validate_config() in the lifespan startup
    registry,      \* the module-level dict SCHEMAS
    lookup,        \* the last schema-registry call and what it produced
    store,         \* rows written through the persistence collaborator
    runs,          \* the process_expense_input coroutines running concurrently
    built,         \* log of prompt-builder calls
    requests,      \* frames of the endpoint handlers in flight
    voice_service, \* the module-level _voice_service of api/voice.py
    cache          \* CostOfLivingService.cache of the module-level service

vars == <<pc, user_input, input_method, calls, ext_out, val_out,
          extracted, validated, result, clock, structured, settings,
          llm_client, startup, registry, lookup, store, runs, built,
          requests, voice_service, cache>>

\* process-wide state no pipeline operation writes
shared == <<settings, startup, registry, store, requests, voice_service, cache>>

\* state of the operations outside a single pipeline run
others == <<lookup, runs, built>>

\* ------------------------------------------------------------------------
\* Bounds
\* ------------------------------------------------------------------------
MaxClock == 2

TicksPerDay == 2

\* calls of the prompt builders kept in the log
MaxBuilt == 2

\* process_expense_input coroutines alive at the same time
NumRuns == 2

\* expense rows the table holds before requests are turned away
MaxExpenses == 1

\* ------------------------------------------------------------------------
\* Python values
\* ------------------------------------------------------------------------
JStr(s) == [t |-> "str", s |-> s]

JNum(n) == [t |-> "num", n |-> n]

JBool(b) == [t |-> "bool", b |-> b]

JArr(a) == [t |-> "arr", a |-> a]

JObj(o) == [t |-> "obj", o |-> o]

None == [t |-> "null"]

\* a local that has not been assigned yet
Unset == [t |-> "unset"]

EmptyDict == JObj(<<>>)

\* type(v).__name__
TypeName(v) ==
    CASE v.t = "str"  -> "str"
      [] v.t = "num"  -> "int"
      [] v.t = "bool" -> "bool"
      [] v.t = "arr"  -> "list"
      [] v.t = "obj"  -> "dict"
      [] OTHER        -> "NoneType"

\* bool(v): the truth value Python's `not v` / `if v` uses
Truthy(v) ==
    CASE v.t = "str"  -> v.s # ""
      [] v.t = "num"  -> v.n # 0
      [] v.t = "bool" -> v.b
      [] v.t = "arr"  -> Len(v.a) > 0
      [] v.t = "obj"  -> DOMAIN v.o # {}
      [] OTHER        -> FALSE

\* str(v) as an f-string formats it (scalars only)
PyStr(v) ==
    CASE v.t = "str"  -> v.s
      [] v.t = "num"  -> ToString(v.n)
      [] v.t = "bool" -> IF v.b THEN "True" ELSE "False"
      [] OTHER        -> "None"

\* d.get(k, default) on a dict d
Get(d, k, default) == IF k \in DOMAIN d.o THEN d.o[k] ELSE default

\* d[k] = v on a dict d
SetItem(d, k, v) ==
    JObj([x \in (DOMAIN d.o) \cup {k} |-> IF x = k THEN v ELSE d.o[x]])

\* outcome of a call: a returned value or a raised exception
Ok(v) == [ok |-> TRUE, val |-> v]

Raise(type, msg) == [ok |-> FALSE, type |-> type, msg |-> msg]

\* the TypeError of `v["metadata"] = ...` on a value that is not a dict
SetItemError(v) ==
    IF v.t = "arr"
    THEN Raise("TypeError", "list indices must be integers or slices, not str")
    ELSE Raise("TypeError",
               "'" \o TypeName(v) \o "' object does not support item assignment")

\* the AttributeError of `v.get(...)` on a value that is not a dict
GetAttrError(v) ==
    Raise("AttributeError",
          "'" \o TypeName(v) \o "' object has no attribute 'get'")

\* ------------------------------------------------------------------------
\* Prompt builders (backend/llm/prompts.py)
\* ------------------------------------------------------------------------
\* datetime.now().strftime("%Y-%m-%d"): the calendar day the clock is in
Today(now) == now \div TicksPerDay

\* str.format on a template: the template and the text put in each slot
build_extraction_prompt(input, now) ==
    [system |-> "EXTRACTION_SYSTEM_PROMPT",
     user   |-> [template   |-> "EXTRACTION_USER_PROMPT_TEMPLATE",
                 user_input |-> input,
                 today_date |-> Today(now)]]

build_validation_prompt(extracted_data, original_input) ==
    [system |-> "VALIDATION_SYSTEM_PROMPT",
     user   |-> [template       |-> "VALIDATION_USER_PROMPT_TEMPLATE",
                 amount         |-> PyStr(Get(extracted_data, "amount", JStr("unknown"))),
                 category       |-> PyStr(Get(extracted_data, "category", JStr("unknown"))),
                 description    |-> PyStr(Get(extracted_data, "description", JStr("unknown"))),
                 date           |-> PyStr(Get(extracted_data, "date", JStr("unknown"))),
                 original_input |-> original_input]]

\* ------------------------------------------------------------------------
\* Generative backend client (backend/llm/client.py)
\* ------------------------------------------------------------------------
\* The request generate_structured hands to generate: the prompt with the
\* JSON instruction and the schema appended, and json_mode = True.
StructuredRequest(prompts, schema) ==
    [prompt        |-> prompts.user,
     suffix        |-> "Respond with valid JSON only.",
     schema        |-> schema,
     system_prompt |-> prompts.system,
     json_mode     |-> TRUE]

\* What generate can do on one request: raise, or return a text.  A text is
\* either a JSON document (given by the value it decodes to) or not JSON.
Raised(type, msg) == [kind |-> "raise", type |-> type, msg |-> msg]

JsonText(v) == [kind |-> "text", json |-> TRUE, value |-> v]

GarbageText(raw) == [kind |-> "text", json |-> FALSE, raw |-> raw]

\* str(JSONDecodeError) for a text that does not start with a JSON value
JSONDecodeErrorMsg == "Expecting value: line 1 column 1 (char 0)"

\* json.loads(response)
json_loads(response) ==
    IF response.json
    THEN Ok(response.value)
    ELSE Raise("JSONDecodeError", JSONDecodeErrorMsg)

\* mutant: a text that is not JSON is swallowed and an empty dict returned
generate_structured_swallow(outcome) ==
    IF outcome.kind = "raise"
    THEN Raise(outcome.type, outcome.msg)
    ELSE LET r == json_loads(outcome)
         IN  IF r.ok THEN r ELSE Ok(EmptyDict)

\* generate_structured after generate has produced `outcome`: a failure of
\* generate propagates, a JSONDecodeError becomes a ValueError.
generate_structured(outcome) ==
    IF outcome.kind = "raise"
    THEN Raise(outcome.type, outcome.msg)
    ELSE LET r == json_loads(outcome)
         IN  IF r.ok
             THEN r
             ELSE Raise("ValueError", "Invalid JSON response from LLM: " \o r.msg)

\* ------------------------------------------------------------------------
\* Configuration (backend/config.py) and client factory (backend/llm/client.py)
\* ------------------------------------------------------------------------
\* Settings() with every variable left at its default, the two required
\* Supabase variables set
DefaultSettings ==
    [ENVIRONMENT             |-> JStr("development"),
     SUPABASE_URL            |-> JStr("https://project.supabase.co"),
     SUPABASE_KEY            |-> JStr("anon-key"),
     LLM_PROVIDER            |-> JStr("ollama"),
     OLLAMA_BASE_URL         |-> JStr("http://localhost:11434"),
     OLLAMA_MODEL_EXTRACTION |-> JStr("llama3.2"),
     OLLAMA_MODEL_VALIDATION |-> JStr("llama3.2"),
     GROQ_API_KEY            |-> None,
     GROQ_MODEL              |-> JStr("llama-3.1-8b-instant"),
     OPENAI_API_KEY          |-> None,
     SESSION_SECRET_KEY      |-> JStr("your-secret-key-change-in-production")]

\* the provider names the configuration documents: "ollama", "groq", "openai"
SupportedProviders == {"ollama", "groq", "openai"}

\* values LLM_PROVIDER is drawn from
ProviderNames == SupportedProviders \cup {"GROQ", "anthropic"}

\* str.lower() on a provider name
Lower(name) == IF name = "GROQ" THEN "groq" ELSE name

\* every environment the model considers
AllSettings ==
    {[DefaultSettings EXCEPT !.ENVIRONMENT = env, !.SUPABASE_URL = url,
                             !.SUPABASE_KEY = key, !.LLM_PROVIDER = JStr(p),
                             !.GROQ_API_KEY = groq, !.OPENAI_API_KEY = openai,
                             !.SESSION_SECRET_KEY = secret] :
        env \in {JStr("development"), JStr("production")},
        url \in {JStr(""), JStr("https://project.supabase.co")},
        key \in {JStr(""), JStr("anon-key")},
        p \in ProviderNames,
        groq \in {None, JStr("gsk_test")},
        openai \in {None, JStr("sk-test")},
        secret \in {JStr("your-secret-key-change-in-production"),
                    JStr("s3cret")}}

RECURSIVE ErrorLines(_)
\* "\n".join(f"  - {e}" for e in errors), one line per error
ErrorLines(errors) ==
    IF Len(errors) = 0 THEN ""
    ELSE IF Len(errors) = 1 THEN "  - " \o errors[1]
    ELSE "  - " \o errors[1] \o "\n" \o ErrorLines(Tail(errors))

\* validate_config() on the settings s
validate_config(s) ==
    LET checks ==
            <<[failed |-> ~Truthy(s.SUPABASE_URL),
               msg    |-> "SUPABASE_URL is required"],
              [failed |-> ~Truthy(s.SUPABASE_KEY),
               msg    |-> "SUPABASE_KEY is required"],
              [failed |-> s.LLM_PROVIDER = JStr("groq")
                          /\ ~Truthy(s.GROQ_API_KEY),
               msg    |-> "GROQ_API_KEY is required when using Groq"],
              [failed |-> s.LLM_PROVIDER = JStr("openai")
                          /\ ~Truthy(s.OPENAI_API_KEY),
               msg    |-> "OPENAI_API_KEY is required when using OpenAI"],
              [failed |-> s.SESSION_SECRET_KEY
                              = JStr("your-secret-key-change-in-production")
                          /\ s.ENVIRONMENT = JStr("production"),
               msg    |-> "SESSION_SECRET_KEY must be changed in production"]>>
        failing == SelectSeq(checks, LAMBDA c : c.failed)
        errors  == [i \in 1..Len(failing) |-> failing[i].msg]
    IN  IF Len(errors) > 0
        THEN Raise("ValueError", "Configuration errors:\n" \o ErrorLines(errors))
        ELSE Ok(JBool(TRUE))

\* OllamaClient.__init__
OllamaClient(s) ==
    Ok([class            |-> "OllamaClient",
        base_url         |-> s.OLLAMA_BASE_URL,
        model_extraction |-> s.OLLAMA_MODEL_EXTRACTION,
        model_validation |-> s.OLLAMA_MODEL_VALIDATION])

\* GroqClient.__init__
GroqClient(s) ==
    IF ~Truthy(s.GROQ_API_KEY)
    THEN Raise("ValueError", "GROQ_API_KEY not configured")
    ELSE Ok([class    |-> "GroqClient",
             api_key  |-> s.GROQ_API_KEY,
             model    |-> s.GROQ_MODEL,
             base_url |-> JStr("https://api.groq.com/openai/v1")])

\* get_llm_client() under the settings s
get_llm_client(s) ==
    LET provider == Lower(s.LLM_PROVIDER.s)
    IN  IF provider = "ollama" THEN OllamaClient(s)
        ELSE IF provider = "groq" THEN GroqClient(s)
        ELSE IF provider = "openai"
             THEN Raise("NotImplementedError",
                        "OpenAI client not yet implemented")
             ELSE Raise("ValueError", "Unknown LLM provider: " \o provider)

\* ------------------------------------------------------------------------
\* Schema registry (backend/llm/schemas.py)
\* ------------------------------------------------------------------------
\* the enum of "category" in ADD_EXPENSE_SCHEMA
Categories ==
    {"food", "transportation", "entertainment", "utilities", "housing",
     "healthcare", "shopping", "education", "personal", "other"}

ADD_EXPENSE_SCHEMA ==
    [name       |-> "add_expense",
     required   |-> {"amount", "category", "description", "date"},
     categories |-> Categories]

SET_BUDGET_SCHEMA ==
    [name       |-> "set_budget",
     required   |-> {"category", "amount", "period"},
     categories |-> (Categories \ {"other"}) \cup {"total"},
     periods    |-> {"daily", "weekly", "monthly", "yearly"}]

EXPENSE_EXTRACTION_SCHEMA ==
    [type     |-> "object",
     required |-> {"intent", "extracted_data"},
     intents  |-> {"add_expense", "set_budget", "query_expenses", "unknown"}]

EXPENSE_VALIDATION_SCHEMA ==
    [type     |-> "object",
     required |-> {"is_valid", "validated_data", "errors"},
     fields   |-> {"amount", "category", "description", "date"}]

\* the dict SCHEMAS
SCHEMAS ==
    [add_expense |-> ADD_EXPENSE_SCHEMA,
     set_budget  |-> SET_BUDGET_SCHEMA,
     extraction  |-> EXPENSE_EXTRACTION_SCHEMA,
     validation  |-> EXPENSE_VALIDATION_SCHEMA]

\* mutant: a missing name yields None, as SCHEMAS.get(name) would
get_schema_lenient(reg, name) ==
    IF name \notin DOMAIN reg THEN Ok(None) ELSE Ok(reg[name])

\* get_schema(name) on the registry reg
get_schema(reg, name) ==
    IF name \notin DOMAIN reg
    THEN Raise("ValueError", "Schema '" \o name \o "' not found.")
    ELSE Ok(reg[name])

\* get_all_function_schemas()
get_all_function_schemas == <<ADD_EXPENSE_SCHEMA, SET_BUDGET_SCHEMA>>

\* ------------------------------------------------------------------------
\* Two-stage pipeline (backend/llm/pipeline.py)
\* ------------------------------------------------------------------------
\* the (success, data, error) tuple process_expense_input returns
Result(success, data, error) ==
    [success |-> success, data |-> data, error |-> error]

\* `return False, None, <message>`
Failure(msg) == Result(FALSE, None, JStr(msg))

\* mutant: the exception is re-raised without the stage message
ExtractionFailureUnwrapped(cause) == Raise("ValueError", cause)

\* raise ValueError(f"Failed to extract expense data: {e}")
ExtractionFailure(cause) ==
    Raise("ValueError", "Failed to extract expense data: " \o cause)

\* mutant: stage 2 raises with the message of stage 1
ValidationFailureAsExtraction(cause) ==
    Raise("ValueError", "Failed to extract expense data: " \o cause)

\* raise ValueError(f"Failed to validate expense data: {e}")
ValidationFailure(cause) ==
    Raise("ValueError", "Failed to validate expense data: " \o cause)

\* extracted["metadata"] of stage 1
ExtractionMetadata(input, method, now) ==
    JObj([input_method   |-> method,
          original_input |-> input,
          extracted_at   |-> JNum(now),
          stage          |-> JStr("extraction")])

\* extract_expense_data from the point where the backend has answered the
\* extraction request with `outcome`
extract_expense_data(input, method, outcome, now) ==
    LET r == generate_structured(outcome)
    IN  IF ~r.ok
        THEN ExtractionFailure(r.msg)
        ELSE IF r.val.t # "obj"
             THEN ExtractionFailure(SetItemError(r.val).msg)
             ELSE Ok(SetItem(r.val, "metadata",
                             ExtractionMetadata(input, method, now)))

\* validate_expense_data up to the backend request: the validation prompt is
\* built from extracted_data.get("extracted_data", {})
validation_prompt(extracted_data, original_input) ==
    LET fields == Get(extracted_data, "extracted_data", EmptyDict)
    IN  IF fields.t # "obj"
        THEN ValidationFailure(GetAttrError(fields).msg)
        ELSE Ok(build_validation_prompt(fields, original_input.s))

\* validated["metadata"] of stage 2
ValidationMetadata(extracted_data, now) ==
    JObj([validated_at          |-> JNum(now),
          stage                 |-> JStr("validation"),
          extraction_confidence |->
              Get(Get(extracted_data, "extracted_data", EmptyDict),
                  "confidence", JNum(0))])

\* validate_expense_data from the point where the backend has answered the
\* validation request with `outcome`
validate_expense_data(extracted_data, outcome, now) ==
    LET r == generate_structured(outcome)
    IN  IF ~r.ok
        THEN ValidationFailure(r.msg)
        ELSE IF r.val.t # "obj"
             THEN ValidationFailure(SetItemError(r.val).msg)
             ELSE Ok(SetItem(r.val, "metadata",
                             ValidationMetadata(extracted_data, now)))

\* mutant: the f prefix of the string literal is missing
WrongIntentMessagePlain(intent) ==
    "This pipeline only handles expenses, got intent: {intent}"

\* f"This pipeline only handles expenses, got intent: {intent}"
WrongIntentMessage(intent) ==
    "This pipeline only handles expenses, got intent: " \o PyStr(intent)

\* mutant: the `intent != "add_expense"` check is missing
IntentGateUnknownOnly(extracted_data) ==
    LET intent == Get(extracted_data, "intent", JStr("unknown"))
    IN  IF intent = JStr("unknown")
        THEN Failure("Could not determine intent from input")
        ELSE Unset

\* mutant: the `intent == "unknown"` check is missing
IntentGateNoUnknown(extracted_data) ==
    LET intent == Get(extracted_data, "intent", JStr("unknown"))
    IN  IF intent # JStr("add_expense")
        THEN Failure("This pipeline only handles expenses, got intent: "
                     \o PyStr(intent))
        ELSE Unset

\* the intent check of process_expense_input: the tuple to return, or Unset
\* when the run goes on to stage 2
IntentGate(extracted_data) ==
    LET intent == Get(extracted_data, "intent", JStr("unknown"))
    IN  IF intent = JStr("unknown")
        THEN Failure("Could not determine intent from input")
        ELSE IF intent # JStr("add_expense")
             THEN Failure(WrongIntentMessage(intent))
             ELSE Unset

\* mutant: only the first error is reported
JoinStrsFirstOnly(sep, items) ==
    IF Len(items) = 0 THEN "" ELSE items[1].s

RECURSIVE JoinStrs(_, _)
\* sep.join(items) for a sequence of str values
JoinStrs(sep, items) ==
    IF Len(items) = 0 THEN ""
    ELSE IF Len(items) = 1 THEN items[1].s
    ELSE items[1].s \o sep \o JoinStrs(sep, Tail(items))

\* sep.join(v): joins a list of str, raises TypeError on a list holding
\* anything else and on a value that is not iterable
PyJoin(sep, v) ==
    CASE v.t = "arr" ->
            LET bad == {i \in 1..Len(v.a) : v.a[i].t # "str"}
            IN  IF bad = {}
                THEN Ok(JoinStrs(sep, v.a))
                ELSE LET i == CHOOSE j \in bad : \A k \in bad : j <= k
                     IN  Raise("TypeError",
                               "sequence item " \o ToString(i - 1)
                               \o ": expected str instance, "
                               \o TypeName(v.a[i]) \o " found")
      [] v.t \in {"null", "num", "bool"} ->
            Raise("TypeError", "can only join an iterable")

\* mutant: the normalized fields are read from the wrong key
FinalResultWrongKey(input, method, extracted_data, validated_data, now) ==
    JObj([raw_input      |-> input,
          input_method   |-> method,
          extracted_data |-> Get(extracted_data, "extracted_data", EmptyDict),
          validated_data |-> Get(validated_data, "normalized_fields", EmptyDict),
          suggestions    |-> Get(validated_data, "suggestions", EmptyDict),
          confidence     |->
              Get(Get(extracted_data, "extracted_data", EmptyDict),
                  "confidence", JNum(0)),
          processed_at   |-> JNum(now)])

\* mutant: confidence is read from the top level of the extraction output
FinalResultTopLevelConfidence(input, method, extracted_data, validated_data, now) ==
    JObj([raw_input      |-> input,
          input_method   |-> method,
          extracted_data |-> Get(extracted_data, "extracted_data", EmptyDict),
          validated_data |-> Get(validated_data, "validated_data", EmptyDict),
          suggestions    |-> Get(validated_data, "suggestions", EmptyDict),
          confidence     |-> Get(extracted_data, "confidence", JNum(0)),
          processed_at   |-> JNum(now)])

\* the result dict of a successful run
FinalResult(input, method, extracted_data, validated_data, now) ==
    JObj([raw_input      |-> input,
          input_method   |-> method,
          extracted_data |-> Get(extracted_data, "extracted_data", EmptyDict),
          validated_data |-> Get(validated_data, "validated_data", EmptyDict),
          suggestions    |-> Get(validated_data, "suggestions", EmptyDict),
          confidence     |->
              Get(Get(extracted_data, "extracted_data", EmptyDict),
                  "confidence", JNum(0)),
          processed_at   |-> JNum(now)])

\* mutant: the errors default is the empty list
CheckValidationNoDefault(input, method, extracted_data, validated_data, now) ==
    IF ~Truthy(Get(validated_data, "is_valid", JBool(FALSE)))
    THEN LET errors == Get(validated_data, "errors", JArr(<<>>))
             joined == PyJoin("; ", errors)
         IN  IF joined.ok
             THEN Ok(Failure("Validation failed: " \o joined.val))
             ELSE joined
    ELSE Ok(Result(TRUE,
                   FinalResult(input, method, extracted_data,
                               validated_data, now),
                   None))

\* process_expense_input after stage 2 has returned `validated_data`
CheckValidation(input, method, extracted_data, validated_data, now) ==
    IF ~Truthy(Get(validated_data, "is_valid", JBool(FALSE)))
    THEN LET errors == Get(validated_data, "errors",
                           JArr(<<JStr("Unknown validation error")>>))
             joined == PyJoin("; ", errors)
         IN  IF joined.ok
             THEN Ok(Failure("Validation failed: " \o joined.val))
             ELSE joined
    ELSE Ok(Result(TRUE,
                   FinalResult(input, method, extracted_data,
                               validated_data, now),
                   None))

\* mutant: the except branch hands back a data dict together with the error
PipelineErrorWithData(e) == Result(FALSE, EmptyDict, JStr(e.msg))

\* except Exception as e: return False, None, str(e)
PipelineError(e) == Failure(e.msg)

\* ------------------------------------------------------------------------
\* Inputs: the arguments of a run and what the backend may answer
\* ------------------------------------------------------------------------
UserInputs == {JStr("I spent 50 dollars on groceries yesterday"),
               JStr("asdfghjkl")}

InputMethods == {JStr("text"), JStr("voice")}

\* a dict with the keys of `keys` whose value in `choice` is not Unset
MkDict(choice) ==
    JObj([k \in {x \in DOMAIN choice : choice[x] # Unset} |-> choice[k]])

\* failures of generate: connection failure, timeout (httpx timeouts have an
\* empty message), non-success status
BackendFailures ==
    {Raised("ConnectError", "All connection attempts failed"),
     Raised("ReadTimeout", ""),
     Raised("HTTPStatusError", "Server error '500 Internal Server Error'")}

\* JSON documents that are not an object
NonDictValues == {JStr("ok"), None, JNum(50), JArr(<<>>)}

IntentValues ==
    {Unset, JStr("add_expense"), JStr("set_budget"), JStr("query_expenses"),
     JStr("unknown"), JStr("delete_expense"), None}

ExtractedFieldValues ==
    {Unset, None,
     JObj([amount |-> JNum(50), category |-> JStr("food"),
           description |-> JStr("groceries"), date |-> JStr("2024-01-14"),
           confidence |-> JNum(90)]),
     JObj([confidence |-> JNum(10)]),
     JObj([amount |-> JNum(50), category |-> None])}

ExtractionValues ==
    NonDictValues \cup
    {MkDict([intent |-> i, extracted_data |-> f]) :
        i \in IntentValues, f \in ExtractedFieldValues}

\* texts json.loads rejects at the first character
GarbageTexts ==
    {GarbageText("Sure! Here is the JSON you asked for"),
     GarbageText("I cannot help with that")}

ExtractionOutcomes ==
    BackendFailures \cup GarbageTexts
    \cup {JsonText(v) : v \in ExtractionValues}

IsValidValues == {Unset, JBool(TRUE), JBool(FALSE), JStr("false"), None}

ValidatedDataValues ==
    {Unset,
     JObj([amount |-> JNum(50), category |-> JStr("food"),
           description |-> JStr("groceries"), date |-> JStr("2024-01-14")]),
     JObj([amount |-> JNum(0), category |-> JStr("misc")])}

ErrorsValues ==
    {Unset, None, JArr(<<>>),
     JArr(<<JStr("amount must be positive")>>),
     JArr(<<JStr("date is invalid"), JStr("amount must be positive")>>),
     JArr(<<JStr("amount must be positive"), JNum(1)>>)}

SuggestionsValues == {Unset, JObj([category |-> JStr("food")])}

ValidationValues ==
    {JStr("ok"), None} \cup
    {MkDict([is_valid |-> v, validated_data |-> d, errors |-> e,
             suggestions |-> s]) :
        v \in IsValidValues, d \in ValidatedDataValues,
        e \in ErrorsValues, s \in SuggestionsValues}

ValidationOutcomes ==
    BackendFailures \cup GarbageTexts
    \cup {JsonText(v) : v \in ValidationValues}

\* ------------------------------------------------------------------------
\* The state machine of one pipeline instance
\* ------------------------------------------------------------------------
Terminal == {"ExtractionFailed", "IntentUnknown", "WrongIntent",
             "ValidationFailed", "ValidatedOK"}

\* environments the application starts under: the default (local Ollama),
\* Groq with its key, OpenAI with its key
ServingSettings ==
    {DefaultSettings,
     [DefaultSettings EXCEPT !.LLM_PROVIDER = JStr("groq"),
                             !.GROQ_API_KEY = JStr("gsk_test")],
     [DefaultSettings EXCEPT !.LLM_PROVIDER = JStr("openai"),
                             !.OPENAI_API_KEY = JStr("sk-test")]}

\* no pipeline run in progress
NoRun ==
    /\ pc = "Start"
    /\ user_input = Unset
    /\ input_method = Unset
    /\ calls = <<>>
    /\ ext_out = Unset
    /\ val_out = Unset
    /\ extracted = Unset
    /\ validated = Unset
    /\ result = Unset
    /\ structured = <<>>

\* nothing outside the pipeline has happened
Idle ==
    /\ registry = SCHEMAS
    /\ lookup = Unset
    /\ store = <<>>
    /\ runs = <<>>
    /\ built = <<>>
    /\ requests = <<>>
    /\ voice_service = None
    /\ cache = <<>>

\* the application has started: validate_config() accepted the settings
Init ==
    /\ NoRun
    /\ Idle
    /\ clock = 0
    /\ settings \in ServingSettings
    /\ startup = validate_config(settings)
    /\ startup.ok
    /\ llm_client = Unset

\* process_expense_input is called and runs up to the await of the
\* extraction request
ProcessExpenseInput(input, method) ==
    /\ pc = "Start"
    /\ llm_client # Unset
    /\ llm_client.ok
    /\ pc' = "Extracting"
    /\ user_input' = input
    /\ input_method' = method
    /\ calls' = <<[stage   |-> "extraction",
                   request |-> StructuredRequest(
                                   build_extraction_prompt(input.s, clock),
                                   "EXPENSE_EXTRACTION_SCHEMA")]>>
    /\ UNCHANGED <<ext_out, val_out, extracted, validated, result, clock>>
    /\ UNCHANGED <<structured, llm_client, shared, others>>

\* an entry point constructs a pipeline, TwoLLMPipeline(), and awaits
\* process_expense_input on it; an exception of the constructor is not
\* caught and reaches the caller
EntryPoint(input, method) ==
    /\ pc = "Start"
    /\ llm_client' = get_llm_client(settings)
    /\ IF llm_client'.ok
       THEN /\ pc' = "Extracting"
            /\ user_input' = input
            /\ input_method' = method
            /\ calls' = <<[stage   |-> "extraction",
                           request |-> StructuredRequest(
                                           build_extraction_prompt(input.s, clock),
                                           "EXPENSE_EXTRACTION_SCHEMA")]>>
       ELSE /\ pc' = "Raised"
            /\ UNCHANGED <<user_input, input_method, calls>>
    /\ UNCHANGED <<ext_out, val_out, extracted, validated, result, clock>>
    /\ UNCHANGED <<structured, shared, others>>

\* process_text_expense(text)
ProcessTextExpense(text) == EntryPoint(text, JStr("text"))

\* process_voice_expense(text)
ProcessVoiceExpense(text) == EntryPoint(text, JStr("voice"))

\* mutant: a failed extraction request is issued a second time
ExtractionReturnsRetry(outcome) ==
    /\ pc = "Extracting"
    /\ ext_out' = outcome
    /\ LET e == extract_expense_data(user_input, input_method, outcome, clock)
       IN  IF ~e.ok /\ Len(calls) < 2
           THEN /\ pc' = "Extracting"
                /\ calls' = Append(calls, calls[1])
                /\ UNCHANGED <<extracted, result>>
           ELSE IF ~e.ok
           THEN /\ pc' = "ExtractionFailed"
                /\ result' = PipelineError(e)
                /\ UNCHANGED <<extracted, calls>>
           ELSE /\ extracted' = e.val
                /\ LET gate == IntentGate(e.val)
                       p    == validation_prompt(e.val, user_input)
                   IN  IF gate # Unset
                       THEN /\ pc' = IF Get(e.val, "intent", JStr("unknown"))
                                        = JStr("unknown")
                                     THEN "IntentUnknown" ELSE "WrongIntent"
                            /\ result' = gate
                            /\ UNCHANGED calls
                       ELSE IF ~p.ok
                            THEN /\ pc' = "ValidationFailed"
                                 /\ result' = PipelineError(p)
                                 /\ UNCHANGED calls
                            ELSE /\ pc' = "Validating"
                                 /\ calls' = Append(calls,
                                        [stage   |-> "validation",
                                         request |-> StructuredRequest(
                                             p.val,
                                             "EXPENSE_VALIDATION_SCHEMA")])
                                 /\ UNCHANGED result
    /\ structured' = Append(structured, generate_structured(outcome))
    /\ UNCHANGED <<user_input, input_method, val_out, validated, clock>>
    /\ UNCHANGED <<llm_client, shared, others>>

\* the extraction request completes; the run goes on to the intent check
\* and, for add_expense, to the await of the validation request
ExtractionReturns(outcome) ==
    /\ pc = "Extracting"
    /\ ext_out' = outcome
    /\ LET e == extract_expense_data(user_input, input_method, outcome, clock)
       IN  IF ~e.ok
           THEN /\ pc' = "ExtractionFailed"
                /\ result' = PipelineError(e)
                /\ UNCHANGED <<extracted, calls>>
           ELSE /\ extracted' = e.val
                /\ LET gate == IntentGate(e.val)
                       p    == validation_prompt(e.val, user_input)
                   IN  IF gate # Unset
                       THEN /\ pc' = IF Get(e.val, "intent", JStr("unknown"))
                                        = JStr("unknown")
                                     THEN "IntentUnknown" ELSE "WrongIntent"
                            /\ result' = gate
                            /\ UNCHANGED calls
                       ELSE IF ~p.ok
                            THEN /\ pc' = "ValidationFailed"
                                 /\ result' = PipelineError(p)
                                 /\ UNCHANGED calls
                            ELSE /\ pc' = "Validating"
                                 /\ calls' = Append(calls,
                                        [stage   |-> "validation",
                                         request |-> StructuredRequest(
                                             p.val,
                                             "EXPENSE_VALIDATION_SCHEMA")])
                                 /\ UNCHANGED result
    /\ structured' = Append(structured, generate_structured(outcome))
    /\ UNCHANGED <<user_input, input_method, val_out, validated, clock>>
    /\ UNCHANGED <<llm_client, shared, others>>

\* mutant: after a failed validation request the run starts over
ValidationReturnsStartOver(outcome) ==
    /\ pc = "Validating"
    /\ LET v == validate_expense_data(extracted, outcome, clock)
       IN  IF ~v.ok
           THEN /\ pc' = "Extracting"
                /\ calls' = <<calls[1]>>
                /\ extracted' = Unset
                /\ ext_out' = Unset
                /\ structured' = <<>>
                /\ UNCHANGED <<val_out, result, validated>>
           ELSE /\ val_out' = outcome
                /\ validated' = v.val
                /\ structured' = Append(structured, generate_structured(outcome))
                /\ UNCHANGED <<calls, extracted, ext_out>>
                /\ LET c == CheckValidation(user_input, input_method,
                                            extracted, v.val, clock)
                   IN  IF ~c.ok
                       THEN /\ pc' = "ValidationFailed"
                            /\ result' = PipelineError(c)
                       ELSE /\ pc' = IF c.val.success THEN "ValidatedOK"
                                     ELSE "ValidationFailed"
                            /\ result' = c.val
    /\ UNCHANGED <<user_input, input_method, clock>>
    /\ UNCHANGED <<llm_client, shared, others>>

\* the validation request completes; the run checks is_valid and returns
ValidationReturns(outcome) ==
    /\ pc = "Validating"
    /\ val_out' = outcome
    /\ LET v == validate_expense_data(extracted, outcome, clock)
       IN  IF ~v.ok
           THEN /\ pc' = "ValidationFailed"
                /\ result' = PipelineError(v)
                /\ UNCHANGED validated
           ELSE /\ validated' = v.val
                /\ LET c == CheckValidation(user_input, input_method,
                                            extracted, v.val, clock)
                   IN  IF ~c.ok
                       THEN /\ pc' = "ValidationFailed"
                            /\ result' = PipelineError(c)
                       ELSE /\ pc' = IF c.val.success THEN "ValidatedOK"
                                     ELSE "ValidationFailed"
                            /\ result' = c.val
    /\ structured' = Append(structured, generate_structured(outcome))
    /\ UNCHANGED <<user_input, input_method, calls, ext_out, extracted, clock>>
    /\ UNCHANGED <<llm_client, shared, others>>

\* the caller has the tuple; the instance is ready for the next call
Return ==
    /\ pc \in Terminal \cup {"Raised"}
    /\ pc' = "Start"
    /\ user_input' = Unset
    /\ input_method' = Unset
    /\ calls' = <<>>
    /\ ext_out' = Unset
    /\ val_out' = Unset
    /\ extracted' = Unset
    /\ validated' = Unset
    /\ result' = Unset
    /\ structured' = <<>>
    /\ UNCHANGED <<clock, llm_client, shared, others>>

\* time passes
Tick ==
    /\ clock < MaxClock
    /\ clock' = clock + 1
    /\ UNCHANGED <<pc, user_input, input_method, calls, ext_out, val_out,
                   extracted, validated, result>>
    /\ UNCHANGED <<structured, llm_client, shared, others>>

Next ==
    \/ \E input \in UserInputs, method \in InputMethods :
           ProcessExpenseInput(input, method)
    \/ \E text \in UserInputs : ProcessTextExpense(text)
    \/ \E text \in UserInputs : ProcessVoiceExpense(text)
    \/ \E outcome \in ExtractionOutcomes : ExtractionReturns(outcome)
    \/ \E outcome \in ValidationOutcomes : ValidationReturns(outcome)
    \/ Return
    \/ Tick

Spec == Init /\ [][Next]_vars

\* each backend request returns or fails: httpx gives up after LLM_TIMEOUT
LiveSpec ==
    /\ Init
    /\ [][Next]_vars
    /\ WF_vars(\E outcome \in ExtractionOutcomes : ExtractionReturns(outcome))
    /\ WF_vars(\E outcome \in ValidationOutcomes : ValidationReturns(outcome))

TypeOK ==
    /\ pc \in {"Start", "Extracting", "Validating", "Raised"} \cup Terminal
    /\ registry = SCHEMAS
    /\ store = <<>>
    /\ clock \in 0..MaxClock
    /\ Len(calls) <= 2

\* ------------------------------------------------------------------------
\* Configuration, factory and schema registry called on their own
\* ------------------------------------------------------------------------
\* names get_schema is called with
SchemaNames ==
    {"extraction", "validation", "add_expense", "set_budget",
     "expense", "EXTRACTION", ""}

\* the process has read its environment; nothing has run yet
ConfigInit ==
    /\ NoRun
    /\ Idle
    /\ clock = 0
    /\ settings \in AllSettings
    /\ startup = Unset
    /\ llm_client = Unset

\* the startup half of lifespan: validate_config()
Lifespan ==
    /\ startup = Unset
    /\ startup' = validate_config(settings)
    /\ UNCHANGED <<pc, user_input, input_method, calls, ext_out, val_out,
                   extracted, validated, result, clock, structured>>
    /\ UNCHANGED <<settings, llm_client, registry, store, others>>
    /\ UNCHANGED <<requests, voice_service, cache>>

\* get_llm_client()
GetLlmClient ==
    /\ llm_client' = get_llm_client(settings)
    /\ UNCHANGED <<pc, user_input, input_method, calls, ext_out, val_out,
                   extracted, validated, result, clock, structured>>
    /\ UNCHANGED <<shared, others>>

\* get_schema(name)
GetSchema(name) ==
    /\ lookup' = [fn   |-> "get_schema",
                  name |-> name,
                  out  |-> get_schema(registry, name)]
    /\ UNCHANGED <<pc, user_input, input_method, calls, ext_out, val_out,
                   extracted, validated, result, clock, structured>>
    /\ UNCHANGED <<llm_client, shared, runs, built>>

\* get_all_function_schemas()
GetAllFunctionSchemas ==
    /\ lookup' = [fn   |-> "get_all_function_schemas",
                  name |-> "",
                  out  |-> Ok(get_all_function_schemas)]
    /\ UNCHANGED <<pc, user_input, input_method, calls, ext_out, val_out,
                   extracted, validated, result, clock, structured>>
    /\ UNCHANGED <<llm_client, shared, runs, built>>

ConfigNext ==
    \/ Lifespan
    \/ GetLlmClient
    \/ \E name \in SchemaNames : GetSchema(name)
    \/ GetAllFunctionSchemas

ConfigSpec == ConfigInit /\ [][ConfigNext]_vars

\* ------------------------------------------------------------------------
\* The prompt builders called on their own (backend/llm/prompts.py)
\* ------------------------------------------------------------------------
\* dicts handed to build_validation_prompt
PromptFieldValues == {v \in ExtractedFieldValues : v \notin {Unset, None}}

PromptInit ==
    /\ NoRun
    /\ Idle
    /\ clock = 0
    /\ settings = DefaultSettings
    /\ startup = Unset
    /\ llm_client = Unset

\* build_extraction_prompt(user_input): reads the clock for today's date
BuildExtractionPrompt(input) ==
    /\ Len(built) < MaxBuilt
    /\ built' = Append(built, [fn   |-> "build_extraction_prompt",
                               args |-> <<input>>,
                               out  |-> build_extraction_prompt(input, clock)])
    /\ UNCHANGED <<pc, user_input, input_method, calls, ext_out, val_out,
                   extracted, validated, result, clock, structured>>
    /\ UNCHANGED <<llm_client, shared, lookup, runs>>

\* build_validation_prompt(extracted_data, original_input)
BuildValidationPrompt(extracted_data, original_input) ==
    /\ Len(built) < MaxBuilt
    /\ built' = Append(built, [fn   |-> "build_validation_prompt",
                               args |-> <<extracted_data, original_input>>,
                               out  |-> build_validation_prompt(extracted_data,
                                                                original_input)])
    /\ UNCHANGED <<pc, user_input, input_method, calls, ext_out, val_out,
                   extracted, validated, result, clock, structured>>
    /\ UNCHANGED <<llm_client, shared, lookup, runs>>

PromptNext ==
    \/ \E input \in UserInputs : BuildExtractionPrompt(input)
    \/ \E data \in PromptFieldValues, input \in UserInputs :
           BuildValidationPrompt(data, input)
    \/ Tick

PromptSpec == PromptInit /\ [][PromptNext]_vars

\* ------------------------------------------------------------------------
\* Several process_expense_input coroutines on one pipeline instance
\* ------------------------------------------------------------------------
\* the frame of a coroutine: the locals of process_expense_input
FreshRun ==
    [pc           |-> "Start",
     user_input   |-> Unset,
     input_method |-> Unset,
     calls        |-> <<>>,
     ext_out      |-> Unset,
     val_out      |-> Unset,
     extracted    |-> Unset,
     validated    |-> Unset,
     result       |-> Unset,
     reused       |-> FALSE]

\* process_expense_input up to the await of the extraction request
StartRun(f, input, method, now) ==
    [f EXCEPT !.pc           = "Extracting",
              !.user_input   = input,
              !.input_method = method,
              !.calls        = <<[stage   |-> "extraction",
                                  request |-> StructuredRequest(
                                      build_extraction_prompt(input.s, now),
                                      "EXPENSE_EXTRACTION_SCHEMA")]>>]

\* from the answer to the extraction request to the next await or the return
AfterExtraction(f, outcome, now) ==
    LET e == extract_expense_data(f.user_input, f.input_method, outcome, now)
        g == [f EXCEPT !.ext_out = outcome]
    IN  IF ~e.ok
        THEN [g EXCEPT !.pc = "ExtractionFailed", !.result = PipelineError(e)]
        ELSE LET gate == IntentGate(e.val)
                 p    == validation_prompt(e.val, f.user_input)
                 h    == [g EXCEPT !.extracted = e.val]
             IN  IF gate # Unset
                 THEN [h EXCEPT !.pc = IF Get(e.val, "intent", JStr("unknown"))
                                          = JStr("unknown")
                                       THEN "IntentUnknown" ELSE "WrongIntent",
                                !.result = gate]
                 ELSE IF ~p.ok
                      THEN [h EXCEPT !.pc = "ValidationFailed",
                                     !.result = PipelineError(p)]
                      ELSE [h EXCEPT !.pc = "Validating",
                                     !.calls = Append(@,
                                         [stage   |-> "validation",
                                          request |-> StructuredRequest(
                                              p.val,
                                              "EXPENSE_VALIDATION_SCHEMA")])]

\* from the answer to the validation request to the return; extracted_data
\* is the local `extracted` of the coroutine
AfterValidation(f, extracted_data, outcome, now) ==
    LET v == validate_expense_data(extracted_data, outcome, now)
        g == [f EXCEPT !.val_out = outcome]
    IN  IF ~v.ok
        THEN [g EXCEPT !.pc = "ValidationFailed", !.result = PipelineError(v)]
        ELSE LET c == CheckValidation(f.user_input, f.input_method,
                                      extracted_data, v.val, now)
                 h == [g EXCEPT !.validated = v.val]
             IN  IF ~c.ok
                 THEN [h EXCEPT !.pc = "ValidationFailed",
                                !.result = PipelineError(c)]
                 ELSE [h EXCEPT !.pc = IF c.val.success THEN "ValidatedOK"
                                       ELSE "ValidationFailed",
                                !.result = c.val]

\* mutant: `extracted` is kept on the pipeline instance, where the first
\* coroutine's value is seen by the others
ExtractedOnInstance(rs, r) ==
    IF rs[1].extracted # Unset THEN rs[1].extracted ELSE rs[r].extracted

\* the local `extracted` of coroutine r
Extracted(rs, r) == rs[r].extracted

\* mutant: the locals of the finished call survive on the instance
ReturnedFrameStale(f) == [f EXCEPT !.pc = "Start", !.reused = TRUE]

\* the frame is gone when the coroutine returns; the slot has been used
ReturnedFrame(f) == [FreshRun EXCEPT !.reused = TRUE]

\* the calls made: process_text_expense-style and voice-style arguments
ConcCalls ==
    {<<JStr("I spent 50 dollars on groceries yesterday"), JStr("text")>>,
     <<JStr("asdfghjkl"), JStr("voice")>>}

ConcExtractionOutcomes ==
    {Raised("ConnectError", "All connection attempts failed"),
     JsonText(MkDict([intent |-> JStr("unknown"), extracted_data |-> Unset])),
     JsonText(MkDict([intent         |-> JStr("add_expense"),
                      extracted_data |->
                          JObj([amount |-> JNum(50), category |-> JStr("food"),
                                description |-> JStr("groceries"),
                                date |-> JStr("2024-01-14"),
                                confidence |-> JNum(90)])])),
     JsonText(MkDict([intent         |-> JStr("add_expense"),
                      extracted_data |-> JObj([confidence |-> JNum(10)])]))}

ConcValidationOutcomes ==
    {GarbageText("I cannot help with that"),
     JsonText(MkDict([is_valid       |-> JBool(TRUE),
                      validated_data |->
                          JObj([amount |-> JNum(50), category |-> JStr("food"),
                                description |-> JStr("groceries"),
                                date |-> JStr("2024-01-14")]),
                      errors         |-> JArr(<<>>),
                      suggestions    |-> Unset])),
     JsonText(MkDict([is_valid       |-> JBool(FALSE),
                      validated_data |-> Unset,
                      errors         |-> JArr(<<JStr("amount must be positive")>>),
                      suggestions    |-> Unset]))}

\* one pipeline instance has been constructed; no coroutine has started
ConcInit ==
    /\ NoRun
    /\ registry = SCHEMAS
    /\ lookup = Unset
    /\ store = <<>>
    /\ built = <<>>
    /\ clock = 0
    /\ settings = DefaultSettings
    /\ startup = Unset
    /\ llm_client = get_llm_client(settings)
    /\ runs = [r \in 1..NumRuns |-> FreshRun]
    /\ requests = <<>>
    /\ voice_service = None
    /\ cache = <<>>

\* a caller awaits pipeline.process_expense_input(input, method)
RunStarts(r, input, method) ==
    /\ runs[r].pc = "Start"
    /\ llm_client.ok
    /\ runs' = [runs EXCEPT ![r] = StartRun(@, input, method, clock)]
    /\ UNCHANGED <<pc, user_input, input_method, calls, ext_out, val_out,
                   extracted, validated, result, clock, structured>>
    /\ UNCHANGED <<llm_client, shared, lookup, built>>

\* the extraction request of coroutine r completes
RunExtractionReturns(r, outcome) ==
    /\ runs[r].pc = "Extracting"
    /\ runs' = [runs EXCEPT ![r] = AfterExtraction(@, outcome, clock)]
    /\ UNCHANGED <<pc, user_input, input_method, calls, ext_out, val_out,
                   extracted, validated, result, clock, structured>>
    /\ UNCHANGED <<llm_client, shared, lookup, built>>

\* the validation request of coroutine r completes
RunValidationReturns(r, outcome) ==
    /\ runs[r].pc = "Validating"
    /\ runs' = [runs EXCEPT ![r] = AfterValidation(@, Extracted(runs, r),
                                                   outcome, clock)]
    /\ UNCHANGED <<pc, user_input, input_method, calls, ext_out, val_out,
                   extracted, validated, result, clock, structured>>
    /\ UNCHANGED <<llm_client, shared, lookup, built>>

\* the caller of coroutine r has its tuple
RunReturns(r) ==
    /\ runs[r].pc \in Terminal
    /\ runs' = [runs EXCEPT ![r] = ReturnedFrame(@)]
    /\ UNCHANGED <<pc, user_input, input_method, calls, ext_out, val_out,
                   extracted, validated, result, clock, structured>>
    /\ UNCHANGED <<llm_client, shared, lookup, built>>

ConcNext ==
    \/ \E r \in 1..NumRuns, c \in ConcCalls : RunStarts(r, c[1], c[2])
    \/ \E r \in 1..NumRuns, o \in ConcExtractionOutcomes :
           RunExtractionReturns(r, o)
    \/ \E r \in 1..NumRuns, o \in ConcValidationOutcomes :
           RunValidationReturns(r, o)
    \/ \E r \in 1..NumRuns : RunReturns(r)

ConcSpec == ConcInit /\ [][ConcNext]_vars

\* ------------------------------------------------------------------------
\* The requests the two stages send (backend/llm/client.py generate)
\* ------------------------------------------------------------------------
\* the JSON body generate posts for the structured request `request`; model
\* is the `model` argument of OllamaClient.generate_structured
generate_payload(client, request, model) ==
    IF client.class = "OllamaClient"
    THEN [url    |-> client.base_url.s \o "/api/generate",
          model  |-> IF Truthy(model) THEN model ELSE client.model_extraction,
          prompt |-> request.prompt,
          system |-> request.system_prompt,
          format |-> "json"]
    ELSE [url    |-> client.base_url.s \o "/chat/completions",
          model  |-> client.model,
          prompt |-> request.prompt,
          system |-> request.system_prompt,
          format |-> "json_object"]

\* extract_expense_data calls generate_structured without a model argument
extraction_payload(client, input, now) ==
    generate_payload(client,
                     StructuredRequest(build_extraction_prompt(input, now),
                                       "EXPENSE_EXTRACTION_SCHEMA"),
                     None)

\* validate_expense_data calls generate_structured without a model argument
validation_payload(client, fields, input) ==
    generate_payload(client,
                     StructuredRequest(build_validation_prompt(fields, input),
                                       "EXPENSE_VALIDATION_SCHEMA"),
                     None)

\* environments with the two Ollama models set apart or alike
ModelSettings ==
    {[DefaultSettings EXCEPT !.LLM_PROVIDER = JStr(p),
                             !.GROQ_API_KEY = JStr("gsk_test"),
                             !.OLLAMA_MODEL_EXTRACTION = JStr(e),
                             !.OLLAMA_MODEL_VALIDATION = JStr(v)] :
        p \in {"ollama", "groq"},
        e \in {"llama3.2", "mistral"},
        v \in {"llama3.2", "qwen2.5"}}

RequestInit ==
    /\ NoRun
    /\ Idle
    /\ clock = 0
    /\ settings \in ModelSettings
    /\ startup = Unset
    /\ llm_client = Unset

\* TwoLLMPipeline.__init__
Construct ==
    /\ llm_client = Unset
    /\ llm_client' = get_llm_client(settings)
    /\ UNCHANGED <<pc, user_input, input_method, calls, ext_out, val_out,
                   extracted, validated, result, clock, structured>>
    /\ UNCHANGED <<shared, others>>

\* stage 1 posts its request
SendExtraction(input) ==
    /\ llm_client # Unset
    /\ llm_client.ok
    /\ Len(built) < MaxBuilt
    /\ built' = Append(built, [stage   |-> "extraction",
                               payload |-> extraction_payload(llm_client.val,
                                                              input.s, clock)])
    /\ UNCHANGED <<pc, user_input, input_method, calls, ext_out, val_out,
                   extracted, validated, result, clock, structured>>
    /\ UNCHANGED <<llm_client, shared, lookup, runs>>

\* stage 2 posts its request
SendValidation(fields, input) ==
    /\ llm_client # Unset
    /\ llm_client.ok
    /\ Len(built) < MaxBuilt
    /\ built' = Append(built, [stage   |-> "validation",
                               payload |-> validation_payload(llm_client.val,
                                                              fields, input.s)])
    /\ UNCHANGED <<pc, user_input, input_method, calls, ext_out, val_out,
                   extracted, validated, result, clock, structured>>
    /\ UNCHANGED <<llm_client, shared, lookup, runs>>

RequestNext ==
    \/ Construct
    \/ \E input \in UserInputs : SendExtraction(input)
    \/ \E fields \in PromptFieldValues, input \in UserInputs :
           SendValidation(fields, input)

RequestSpec == RequestInit /\ [][RequestNext]_vars

\* ------------------------------------------------------------------------
\* The database (backend/database/client.py): tables of rows
\* ------------------------------------------------------------------------
\* the rows of table t; a table nothing was inserted into has none
Rows(db, t) == IF t \in DOMAIN db THEN db[t] ELSE <<>>

\* the database with table t holding rows
WithRows(db, t, rows) ==
    [x \in (DOMAIN db) \cup {t} |-> IF x = t THEN rows ELSE db[x]]

\* the failure of a request to the database
APIError == Raise("APIError", "database request failed")

\* table(t).insert(data).execute() and response.data[0]: the row gets the
\* next id; done = FALSE is a request the database fails
db_insert(db, t, data, done) ==
    IF ~done
    THEN [db |-> db, out |-> APIError]
    ELSE LET row == [k \in (DOMAIN data) \cup {"id"} |->
                        IF k = "id" THEN Len(Rows(db, t)) + 1 ELSE data[k]]
         IN  [db |-> WithRows(db, t, Append(Rows(db, t), row)), out |-> Ok(row)]

\* SupabaseClient.add_expense
add_expense(db, user_id, amount, category, description, expense_date, method, raw_input, llm_extracted, llm_validated, done) ==
    db_insert(db, "expenses",
              [user_id       |-> user_id,
               amount        |-> amount,
               category      |-> category,
               description   |-> description,
               expense_date  |-> expense_date,
               input_method  |-> method,
               raw_input     |-> raw_input,
               llm_extracted |-> llm_extracted,
               llm_validated |-> llm_validated],
              done)

\* SupabaseClient.add_calendar_entry
add_calendar_entry(db, user_id, expense_id, entry_date, title, description, amount, category, done) ==
    db_insert(db, "calendar_entries",
              [user_id     |-> user_id,
               expense_id  |-> expense_id,
               entry_date  |-> entry_date,
               title       |-> title,
               description |-> description,
               amount      |-> amount,
               category    |-> category],
              done)

\* repr(v) inside an f-string, for scalars and lists of scalars
RECURSIVE ReprItems(_, _)
ReprItems(a, n) ==
    IF n = 0 THEN ""
    ELSE (IF n = 1 THEN "" ELSE ReprItems(a, n - 1) \o ", ")
         \o (IF a[n].t = "str" THEN "'" \o a[n].s \o "'" ELSE PyStr(a[n]))

PyRepr(v) ==
    CASE v.t = "arr" -> "[" \o ReprItems(v.a, Len(v.a)) \o "]"
      [] v.t = "str" -> "'" \o v.s \o "'"
      [] OTHER       -> PyStr(v)

\* the exception of d[k] when d has no k or is no dict; Unset when d[k] is fine
SubscriptError(d, k) ==
    IF d.t # "obj"
    THEN Raise("TypeError", "'" \o TypeName(d) \o "' object is not subscriptable")
    ELSE IF k \notin DOMAIN d.o
         THEN Raise("KeyError", "'" \o k \o "'")
         ELSE Unset

\* ------------------------------------------------------------------------
\* The expense endpoints (backend/api/expenses.py)
\* ------------------------------------------------------------------------
\* the two except branches of add_expense_from_text
FromTextError(e) ==
    IF e.type = "ValueError"
    THEN [status |-> 400, detail |-> e.msg]
    ELSE [status |-> 500, detail |-> "Failed to add expense: " \o e.msg]

\* the except branch of add_expense_direct
DirectError(e) == [status |-> 500, detail |-> e.msg]

\* ExpenseResponse built from the inserted row
ExpenseResponse(expense, method) ==
    [status |-> 200,
     body   |-> [id           |-> ToString(expense.id),
                 user_id      |-> expense.user_id,
                 amount       |-> expense.amount,
                 category     |-> expense.category,
                 description  |-> expense.description,
                 date         |-> expense.expense_date,
                 input_method |-> method]]

\* the locals of a handler that has just been entered
NewFrame(endpoint, request) ==
    [endpoint  |-> endpoint,
     pc        |-> "Entered",
     request   |-> request,
     calls     |-> <<>>,
     extracted |-> Unset,
     validated |-> Unset,
     db_calls  |-> <<>>,
     response  |-> Unset]

\* the handler leaves with response r
Responded(f, r) == [f EXCEPT !.pc = "Responded", !.response = r]

\* add_expense_from_text up to the await of the extraction request; client
\* is the outcome of get_llm_client() in TwoLLMPipeline()
from_text_start(request, client, now) ==
    LET f == NewFrame("add_expense_from_text", request)
    IN  IF ~client.ok
        THEN Responded(f, FromTextError(client))
        ELSE [f EXCEPT !.pc = "Extracting",
                       !.calls = <<[stage   |-> "extraction",
                                    request |-> StructuredRequest(
                                        build_extraction_prompt(
                                            request.input_text.s, now),
                                        "EXPENSE_EXTRACTION_SCHEMA")]>>]

\* from the answer to the extraction request to the await of the validation
\* request: validate_expense_data is called with whatever was extracted
from_text_extracted(f, outcome, now) ==
    LET e == extract_expense_data(f.request.input_text, f.request.input_method,
                                  outcome, now)
    IN  IF ~e.ok
        THEN Responded(f, FromTextError(e))
        ELSE LET p == validation_prompt(e.val, f.request.input_text)
                 g == [f EXCEPT !.extracted = e.val]
             IN  IF ~p.ok
                 THEN Responded(g, FromTextError(p))
                 ELSE [g EXCEPT !.pc = "Validating",
                                !.calls = Append(@,
                                    [stage   |-> "validation",
                                     request |-> StructuredRequest(
                                         p.val,
                                         "EXPENSE_VALIDATION_SCHEMA")])]

\* the exception of the first d[k], k taken in the order of keys, that fails
FirstSubscriptError(d, keys) ==
    LET bad == {i \in 1..Len(keys) : SubscriptError(d, keys[i]) # Unset}
    IN  IF bad = {} THEN Unset
        ELSE SubscriptError(d, keys[CHOOSE i \in bad : \A j \in bad : i <= j])

\* db.add_expense(...) followed by db.add_calendar_entry(...); ins1 and ins2
\* say whether the database carries out the first and the second insert
save_expense(db, user_id, amount, category, description, date, method, raw_input, llm_extracted, llm_validated, ins1, ins2) ==
    LET a == add_expense(db, user_id, amount, category, description, date,
                         method, raw_input, llm_extracted, llm_validated, ins1)
    IN  IF ~a.out.ok
        THEN [db |-> a.db, out |-> a.out,
              db_calls |-> <<[fn |-> "add_expense", ok |-> FALSE, id |-> 0]>>]
        ELSE LET c == add_calendar_entry(
                          a.db, user_id, a.out.val.id, date,
                          PyStr(category) \o ": $" \o PyStr(amount),
                          description, amount, category, ins2)
             IN  [db |-> c.db,
                  out |-> IF c.out.ok THEN a.out ELSE c.out,
                  db_calls |-> <<[fn |-> "add_expense", ok |-> TRUE,
                                  id |-> a.out.val.id],
                                 [fn |-> "add_calendar_entry", ok |-> c.out.ok,
                                  id |-> a.out.val.id]>>]

\* mutant: the is_valid check before the save is missing
from_text_validated_unchecked(f, db, outcome, ins1, ins2, now) ==
    LET v == validate_expense_data(f.extracted, outcome, now)
    IN  IF ~v.ok
        THEN [frame |-> Responded(f, FromTextError(v)), db |-> db]
        ELSE LET g == [f EXCEPT !.validated = v.val]
                 final_data == Get(v.val, "validated_data", EmptyDict)
                 missing == FirstSubscriptError(
                                final_data,
                                <<"amount", "category", "description", "date">>)
             IN  IF FALSE
                 THEN [frame |-> Responded(g, FromTextError(
                                    Raise("ValueError",
                                          "Validation failed: "
                                          \o PyRepr(Get(v.val, "errors",
                                                        JArr(<<>>)))))),
                       db |-> db]
                 ELSE IF missing # Unset
                 THEN [frame |-> Responded(g, FromTextError(missing)), db |-> db]
                 ELSE LET sv == save_expense(
                                    db, f.request.user_id,
                                    final_data.o["amount"],
                                    final_data.o["category"],
                                    final_data.o["description"],
                                    final_data.o["date"],
                                    f.request.input_method,
                                    f.request.input_text,
                                    f.extracted, v.val, ins1, ins2)
                      IN  [frame |-> Responded(
                                  [g EXCEPT !.db_calls = sv.db_calls],
                                  IF sv.out.ok
                                  THEN ExpenseResponse(sv.out.val,
                                                       f.request.input_method)
                                  ELSE FromTextError(sv.out)),
                           db |-> sv.db]

\* add_expense_from_text from the answer to the validation request to the
\* response
from_text_validated(f, db, outcome, ins1, ins2, now) ==
    LET v == validate_expense_data(f.extracted, outcome, now)
    IN  IF ~v.ok
        THEN [frame |-> Responded(f, FromTextError(v)), db |-> db]
        ELSE LET g == [f EXCEPT !.validated = v.val]
                 final_data == Get(v.val, "validated_data", EmptyDict)
                 missing == FirstSubscriptError(
                                final_data,
                                <<"amount", "category", "description", "date">>)
             IN  IF ~Truthy(Get(v.val, "is_valid", JBool(FALSE)))
                 THEN [frame |-> Responded(g, FromTextError(
                                    Raise("ValueError",
                                          "Validation failed: "
                                          \o PyRepr(Get(v.val, "errors",
                                                        JArr(<<>>)))))),
                       db |-> db]
                 ELSE IF missing # Unset
                 THEN [frame |-> Responded(g, FromTextError(missing)), db |-> db]
                 ELSE LET sv == save_expense(
                                    db, f.request.user_id,
                                    final_data.o["amount"],
                                    final_data.o["category"],
                                    final_data.o["description"],
                                    final_data.o["date"],
                                    f.request.input_method,
                                    f.request.input_text,
                                    f.extracted, v.val, ins1, ins2)
                      IN  [frame |-> Responded(
                                  [g EXCEPT !.db_calls = sv.db_calls],
                                  IF sv.out.ok
                                  THEN ExpenseResponse(sv.out.val,
                                                       f.request.input_method)
                                  ELSE FromTextError(sv.out)),
                           db |-> sv.db]

\* add_expense_direct, from the request to the response
direct(request, db, ins1, ins2) ==
    LET f  == NewFrame("add_expense_direct", request)
        sv == save_expense(db, request.user_id, request.amount,
                           request.category, request.description, request.date,
                           JStr("direct"), None, None, None, ins1, ins2)
    IN  [frame |-> Responded([f EXCEPT !.db_calls = sv.db_calls],
                             IF sv.out.ok
                             THEN ExpenseResponse(sv.out.val, JStr("direct"))
                             ELSE DirectError(sv.out)),
         db |-> sv.db]

\* requests to POST /add and POST /add-direct
AddExpenseRequests ==
    {[user_id      |-> JStr("u1"),
      input_text   |-> JStr("I spent 50 dollars on groceries yesterday"),
      input_method |-> JStr("text")]}

AddExpenseDirectRequests ==
    {[user_id     |-> JStr("u1"),
      amount      |-> JNum(12),
      category    |-> JStr("transport"),
      description |-> JStr("bus ticket"),
      date        |-> JStr("2024-01-15")]}

GroceryFields ==
    JObj([amount |-> JNum(50), category |-> JStr("food"),
          description |-> JStr("groceries"), date |-> JStr("2024-01-14")])

\* what the backend does on the extraction request of POST /add
EndpointExtractionOutcomes ==
    {Raised("ConnectError", "All connection attempts failed")}
    \cup {JsonText(MkDict([intent |-> JStr(i), extracted_data |-> GroceryFields])) :
             i \in {"add_expense", "set_budget", "query_expenses"}}
    \cup {JsonText(MkDict([intent |-> JStr("unknown"), extracted_data |-> Unset]))}

\* what the backend does on the validation request of POST /add
EndpointValidationOutcomes ==
    {GarbageText("I cannot help with that")}
    \cup {JsonText(MkDict([is_valid       |-> v,
                           validated_data |-> GroceryFields,
                           errors         |-> Unset,
                           suggestions    |-> Unset])) :
             v \in {JBool(TRUE), JBool(FALSE), JStr("false"), Unset}}
    \cup {JsonText(MkDict([is_valid       |-> JBool(TRUE),
                           validated_data |-> Unset,
                           errors         |-> Unset,
                           suggestions    |-> Unset])),
          JsonText(MkDict([is_valid       |-> JBool(FALSE),
                           validated_data |-> GroceryFields,
                           errors         |-> JArr(<<JStr("amount must be positive")>>),
                           suggestions    |-> Unset]))}

\* the application is serving; no request is in flight, no row is stored
ExpenseInit ==
    /\ NoRun
    /\ Idle
    /\ clock = 0
    /\ settings \in ServingSettings
    /\ startup = validate_config(settings)
    /\ startup.ok
    /\ llm_client = Unset

\* POST /add arrives: add_expense_from_text runs to its first await
AddExpenseFromText(request) ==
    /\ requests = <<>>
    /\ Len(Rows(store, "expenses")) < MaxExpenses
    /\ llm_client' = get_llm_client(settings)
    /\ requests' = <<from_text_start(request, llm_client', clock)>>
    /\ UNCHANGED <<pc, user_input, input_method, calls, ext_out, val_out,
                   extracted, validated, result, clock, structured>>
    /\ UNCHANGED <<settings, startup, registry, store, voice_service, cache,
                   others>>

\* the extraction request of the handler completes
FromTextExtractionReturns(outcome) ==
    /\ requests # <<>>
    /\ requests[1].pc = "Extracting"
    /\ requests' = <<from_text_extracted(requests[1], outcome, clock)>>
    /\ UNCHANGED <<pc, user_input, input_method, calls, ext_out, val_out,
                   extracted, validated, result, clock, structured>>
    /\ UNCHANGED <<llm_client, settings, startup, registry, store,
                   voice_service, cache, others>>

\* the validation request of the handler completes; the handler goes on to
\* the database and responds
FromTextValidationReturns(outcome, ins1, ins2) ==
    /\ requests # <<>>
    /\ requests[1].pc = "Validating"
    /\ LET r == from_text_validated(requests[1], store, outcome, ins1, ins2,
                                    clock)
       IN  /\ requests' = <<r.frame>>
           /\ store' = r.db
    /\ UNCHANGED <<pc, user_input, input_method, calls, ext_out, val_out,
                   extracted, validated, result, clock, structured>>
    /\ UNCHANGED <<llm_client, settings, startup, registry, voice_service,
                   cache, others>>

\* POST /add-direct arrives and is answered
AddExpenseDirect(request, ins1, ins2) ==
    /\ requests = <<>>
    /\ Len(Rows(store, "expenses")) < MaxExpenses
    /\ LET r == direct(request, store, ins1, ins2)
       IN  /\ requests' = <<r.frame>>
           /\ store' = r.db
    /\ UNCHANGED <<pc, user_input, input_method, calls, ext_out, val_out,
                   extracted, validated, result, clock, structured>>
    /\ UNCHANGED <<llm_client, settings, startup, registry, voice_service,
                   cache, others>>

\* the response has gone out; the handler's frame is gone
ResponseSent ==
    /\ requests # <<>>
    /\ requests[1].pc = "Responded"
    /\ requests' = <<>>
    /\ UNCHANGED <<pc, user_input, input_method, calls, ext_out, val_out,
                   extracted, validated, result, clock, structured>>
    /\ UNCHANGED <<llm_client, settings, startup, registry, store,
                   voice_service, cache, others>>

ExpenseNext ==
    \/ \E request \in AddExpenseRequests : AddExpenseFromText(request)
    \/ \E outcome \in EndpointExtractionOutcomes :
           FromTextExtractionReturns(outcome)
    \/ \E outcome \in EndpointValidationOutcomes, ins1 \in BOOLEAN,
           ins2 \in BOOLEAN :
           FromTextValidationReturns(outcome, ins1, ins2)
    \/ \E request \in AddExpenseDirectRequests, ins1 \in BOOLEAN,
           ins2 \in BOOLEAN :
           AddExpenseDirect(request, ins1, ins2)
    \/ ResponseSent

ExpenseSpec == ExpenseInit /\ [][ExpenseNext]_vars

\* ------------------------------------------------------------------------
\* Voice transcription (backend/api/voice.py, backend/api/voice_routes.py)
\* ------------------------------------------------------------------------
VoiceModes == {"local", "groq", "openai"}

\* mode is a plain str parameter: any text can be requested
RequestedModes == VoiceModes \cup {"azure"}

\* VoiceInputService(mode); whisper says whether openai-whisper is importable
VoiceInputService(mode, whisper) ==
    IF mode = "local" /\ ~whisper
    THEN Raise("ImportError",
               "openai-whisper not installed. Install with: pip install openai-whisper")
    ELSE Ok([mode  |-> mode,
             model |-> IF mode = "local" THEN "whisper" ELSE "None"])

\* get_voice_service(mode) on the module globals g: the globals afterwards
\* and the service returned or the exception raised
get_voice_service(g, mode) ==
    IF g._voice_service = None
    THEN LET made == VoiceInputService(mode, g.WHISPER_AVAILABLE)
         IN  IF made.ok
             THEN [globals |-> [g EXCEPT !._voice_service = made.val],
                   out     |-> made]
             ELSE [globals |-> g, out |-> made]
    ELSE [globals |-> g, out |-> Ok(g._voice_service)]

\* the method transcribe_audio_file dispatches to
transcribe_audio_file(service) ==
    CASE service.mode = "local"  -> Ok("_transcribe_local")
      [] service.mode = "groq"   -> Ok("_transcribe_groq")
      [] service.mode = "openai" -> Ok("_transcribe_openai")
      [] OTHER -> Raise("ValueError", "Unknown mode: " \o service.mode)

\* the module api/voice.py has been imported
VoiceInit ==
    /\ NoRun
    /\ registry = SCHEMAS
    /\ lookup = Unset
    /\ store = <<>>
    /\ runs = <<>>
    /\ built = <<>>
    /\ requests = <<>>
    /\ cache = <<>>
    /\ clock = 0
    /\ settings = DefaultSettings
    /\ startup = Unset
    /\ llm_client = Unset
    /\ voice_service \in {[WHISPER_AVAILABLE |-> w, _voice_service |-> None] :
                             w \in BOOLEAN}

\* POST /transcribe?mode=...: the handler up to `await audio_file.read()`
Transcribe(mode) ==
    /\ requests = <<>>
    /\ LET got == get_voice_service(voice_service, mode)
           f   == [endpoint |-> "transcribe_audio", pc |-> "Reading",
                   mode |-> mode, service |-> Unset, method |-> Unset,
                   response |-> Unset]
       IN  /\ voice_service' = got.globals
           /\ requests' =
                 IF got.out.ok
                 THEN <<[f EXCEPT !.service = got.out.val]>>
                 ELSE <<[f EXCEPT !.pc = "Responded",
                                  !.response =
                                      [status |-> 500,
                                       detail |-> "Transcription failed: "
                                                  \o got.out.msg]]>>
    /\ UNCHANGED <<pc, user_input, input_method, calls, ext_out, val_out,
                   extracted, validated, result, clock, structured>>
    /\ UNCHANGED <<llm_client, settings, startup, registry, store, cache,
                   others>>

\* the upload has been read: transcribe_audio_bytes runs; done = FALSE is a
\* transcription that fails
TranscribeBytes(done) ==
    /\ requests # <<>>
    /\ requests[1].pc = "Reading"
    /\ LET m == transcribe_audio_file(requests[1].service)
       IN  requests' =
             <<[requests[1] EXCEPT
                  !.pc = "Responded",
                  !.method = IF m.ok THEN m.val ELSE Unset,
                  !.response =
                      IF ~m.ok
                      THEN [status |-> 500,
                            detail |-> "Transcription failed: " \o m.msg]
                      ELSE IF ~done
                      THEN [status |-> 500,
                            detail |-> "Transcription failed: engine error"]
                      ELSE [status |-> 200, detail |-> "text"]]>>
    /\ UNCHANGED <<pc, user_input, input_method, calls, ext_out, val_out,
                   extracted, validated, result, clock, structured>>
    /\ UNCHANGED <<llm_client, settings, startup, registry, store,
                   voice_service, cache, others>>

\* voice.transcribe_audio(audio_file_path, mode) up to its await; an
\* exception of get_voice_service reaches the caller
TranscribeAudio(mode) ==
    /\ requests = <<>>
    /\ LET got == get_voice_service(voice_service, mode)
           f   == [endpoint |-> "voice.transcribe_audio", pc |-> "Transcribing",
                   mode |-> mode, service |-> Unset, method |-> Unset,
                   response |-> Unset]
       IN  /\ voice_service' = got.globals
           /\ requests' =
                 IF got.out.ok
                 THEN <<[f EXCEPT !.service = got.out.val]>>
                 ELSE <<[f EXCEPT !.pc = "Responded", !.response = got.out]>>
    /\ UNCHANGED <<pc, user_input, input_method, calls, ext_out, val_out,
                   extracted, validated, result, clock, structured>>
    /\ UNCHANGED <<llm_client, settings, startup, registry, store, cache,
                   others>>

\* service.transcribe_audio_file(audio_file_path) returns or raises
TranscribeAudioFile(done) ==
    /\ requests # <<>>
    /\ requests[1].pc = "Transcribing"
    /\ LET m == transcribe_audio_file(requests[1].service)
       IN  requests' =
             <<[requests[1] EXCEPT
                  !.pc = "Responded",
                  !.method = IF m.ok THEN m.val ELSE Unset,
                  !.response =
                      IF ~m.ok THEN m
                      ELSE IF ~done THEN Raise("Exception", "engine error")
                      ELSE Ok("text")]>>
    /\ UNCHANGED <<pc, user_input, input_method, calls, ext_out, val_out,
                   extracted, validated, result, clock, structured>>
    /\ UNCHANGED <<llm_client, settings, startup, registry, store,
                   voice_service, cache, others>>

VoiceNext ==
    \/ \E mode \in RequestedModes : Transcribe(mode)
    \/ \E done \in BOOLEAN : TranscribeBytes(done)
    \/ \E mode \in RequestedModes : TranscribeAudio(mode)
    \/ \E done \in BOOLEAN : TranscribeAudioFile(done)
    \/ ResponseSent

VoiceSpec == VoiceInit /\ [][VoiceNext]_vars

\* ------------------------------------------------------------------------
\* Cost-of-living data (backend/api/cost_of_living.py)
\* ------------------------------------------------------------------------
\* timedelta(days=7)
cache_days == 7

cache_duration == cache_days * TicksPerDay

\* getattr(settings, 'RAPIDAPI_KEY', None)
api_key(s) == IF "RAPIDAPI_KEY" \in DOMAIN s THEN s["RAPIDAPI_KEY"] ELSE None

\* f"{city_name}:{country_name or 'any'}"
cache_key(city_name, country_name) ==
    city_name \o ":" \o (IF Truthy(country_name) THEN country_name.s ELSE "any")

\* _get_mock_data
get_mock_data(city_name, country_name, now) ==
    [city       |-> city_name,
     country    |-> IF Truthy(country_name) THEN country_name.s ELSE "Unknown",
     updated_at |-> now,
     source     |-> "mock_data"]

\* _parse_api_response
parse_api_response(api_data, city_name, now) ==
    [city       |-> city_name,
     country    |-> Get(api_data, "country", JStr("Unknown")).s,
     updated_at |-> now,
     source     |-> "rapidapi"]

\* the locals of a get_city_data call
CityFrame(city_name, country_name) ==
    [endpoint |-> "get_city_data",
     pc       |-> "Entered",
     city     |-> city_name,
     country  |-> country_name,
     key      |-> cache_key(city_name, country_name),
     fetched  |-> FALSE,
     response |-> Unset]

\* get_city_data up to its await or, when none is reached, to its return;
\* c is self.cache, key is self.api_key
get_city_data(c, key, city_name, country_name, now) ==
    LET f == CityFrame(city_name, country_name)
    IN  IF f.key \in DOMAIN c /\ now - c[f.key].time < cache_duration
        THEN [frame |-> [f EXCEPT !.pc = "Responded",
                                  !.response = c[f.key].data],
              cache |-> c]
        ELSE IF Truthy(key)
        THEN [frame |-> [f EXCEPT !.pc = "Fetching", !.fetched = TRUE],
              cache |-> c]
        ELSE LET data == get_mock_data(city_name, country_name, now)
             IN  [frame |-> [f EXCEPT !.pc = "Responded", !.response = data],
                  cache |-> [k \in (DOMAIN c) \cup {f.key} |->
                                IF k = f.key
                                THEN [data |-> data, time |-> now]
                                ELSE c[k]]]

\* mutant: the except branch stores the mock data it returns
fetch_returns_caching(f, c, outcome, now) ==
    LET data == IF outcome.kind = "text" /\ outcome.json
                THEN parse_api_response(outcome.value, f.city, now)
                ELSE get_mock_data(f.city, f.country, now)
    IN  [frame |-> [f EXCEPT !.pc = "Responded", !.response = data],
         cache |-> [k \in (DOMAIN c) \cup {f.key} |->
                       IF k = f.key THEN [data |-> data, time |-> now]
                       ELSE c[k]]]

\* get_city_data from the answer of the RapidAPI request to its return
fetch_returns(f, c, outcome, now) ==
    IF outcome.kind = "text" /\ outcome.json
    THEN LET data == parse_api_response(outcome.value, f.city, now)
         IN  [frame |-> [f EXCEPT !.pc = "Responded", !.response = data],
              cache |-> [k \in (DOMAIN c) \cup {f.key} |->
                            IF k = f.key THEN [data |-> data, time |-> now]
                            ELSE c[k]]]
    ELSE [frame |-> [f EXCEPT !.pc = "Responded",
                              !.response = get_mock_data(f.city, f.country, now)],
          cache |-> c]

\* the settings object with and without a RAPIDAPI_KEY attribute
CostSettings ==
    {DefaultSettings,
     [k \in (DOMAIN DefaultSettings) \cup {"RAPIDAPI_KEY"} |->
         IF k = "RAPIDAPI_KEY" THEN JStr("rapid-key") ELSE DefaultSettings[k]]}

\* (city_name, country_name) arguments of get_city_data
CityQueries ==
    {<<"austin", None>>, <<"austin", JStr("US")>>}

\* what the RapidAPI request gives: a JSON body, a body that is no JSON,
\* a failed status, a timeout
RapidApiOutcomes ==
    {JsonText(JObj([country |-> JStr("United States")])),
     JsonText(EmptyDict),
     GarbageText("<html>"),
     Raised("HTTPStatusError", "403 Forbidden"),
     Raised("TimeoutException", "timed out")}

\* the last instant the cache model lets the clock reach
CacheHorizon == (cache_days + MaxClock) * TicksPerDay

CacheInit ==
    /\ NoRun
    /\ registry = SCHEMAS
    /\ lookup = Unset
    /\ store = <<>>
    /\ runs = <<>>
    /\ built = <<>>
    /\ requests = <<>>
    /\ cache = <<>>
    /\ clock = 0
    /\ settings \in CostSettings
    /\ startup = Unset
    /\ llm_client = Unset
    /\ voice_service = None

\* datetime.now() moves on by a day
DayPasses ==
    /\ clock + TicksPerDay <= CacheHorizon
    /\ clock' = clock + TicksPerDay
    /\ UNCHANGED <<pc, user_input, input_method, calls, ext_out, val_out,
                   extracted, validated, result, structured>>
    /\ UNCHANGED <<llm_client, settings, startup, registry, store, requests,
                   voice_service, cache, others>>

\* a caller awaits get_city_data(city_name, country_name)
GetCityData(city_name, country_name) ==
    /\ requests = <<>>
    /\ LET r == get_city_data(cache, api_key(settings), city_name,
                              country_name, clock)
       IN  /\ requests' = <<r.frame>>
           /\ cache' = r.cache
    /\ UNCHANGED <<pc, user_input, input_method, calls, ext_out, val_out,
                   extracted, validated, result, clock, structured>>
    /\ UNCHANGED <<llm_client, settings, startup, registry, store,
                   voice_service, others>>

\* the awaited _fetch_from_rapidapi returns or raises
FetchReturns(outcome) ==
    /\ requests # <<>>
    /\ requests[1].endpoint = "get_city_data"
    /\ requests[1].pc = "Fetching"
    /\ LET r == fetch_returns(requests[1], cache, outcome, clock)
       IN  /\ requests' = <<r.frame>>
           /\ cache' = r.cache
    /\ UNCHANGED <<pc, user_input, input_method, calls, ext_out, val_out,
                   extracted, validated, result, clock, structured>>
    /\ UNCHANGED <<llm_client, settings, startup, registry, store,
                   voice_service, others>>

CacheNext ==
    \/ \E q \in CityQueries : GetCityData(q[1], q[2])
    \/ \E outcome \in RapidApiOutcomes : FetchReturns(outcome)
    \/ ResponseSent
    \/ DayPasses

CacheSpec == CacheInit /\ [][CacheNext]_vars

\* ------------------------------------------------------------------------
\* Budgets (backend/api/budgets.py, SupabaseClient.set_budget)
\* ------------------------------------------------------------------------
\* the most budget rows the model lets the table hold
MaxBudgets == 3

\* server processes that serve the app against the one database; inside one
\* process the event loop runs a set_budget handler without interruption,
\* because the database client blocks and the handler awaits nothing else
Workers == {"w1", "w2"}

\* SetBudgetRequest
SetBudgetRequests ==
    [user_id : {"u1"}, category : {"food"}, amount : {10, 20},
     period : {"monthly", "weekly"}]

\* the locals of a set_budget handler that is not running
IdleFrame == [endpoint |-> "set_budget", pc |-> "Idle"]

\* table("budgets").select("*").eq(user_id).eq(category).eq(period).execute()
select_budgets(db, user_id, category, period, done) ==
    IF ~done
    THEN APIError
    ELSE Ok(SelectSeq(Rows(db, "budgets"),
                      LAMBDA r : r.user_id = user_id /\ r.category = category
                                     /\ r.period = period))

\* table("budgets").update({"amount": amount}).eq("id", id).execute()
update_budget(db, id, amount, done) ==
    IF ~done
    THEN [db |-> db, out |-> APIError]
    ELSE LET rows == Rows(db, "budgets")
             upd  == [i \in DOMAIN rows |->
                         IF rows[i].id = id
                         THEN [rows[i] EXCEPT !.amount = amount]
                         ELSE rows[i]]
             hit  == SelectSeq(upd, LAMBDA r : r.id = id)
         IN  [db  |-> WithRows(db, "budgets", upd),
              out |-> IF hit = <<>>
                      THEN Raise("IndexError", "list index out of range")
                      ELSE Ok(hit[1])]

\* the set_budget endpoint and SupabaseClient.set_budget up to the answer of
\* the select
set_budget_select(db, request, done) ==
    LET existing == select_budgets(db, request.user_id, request.category,
                                   request.period, done)
    IN  IF existing.ok
        THEN [endpoint |-> "set_budget", pc |-> "Selected",
              request |-> request, existing |-> existing.val]
        ELSE [endpoint |-> "set_budget", pc |-> "Responded",
              request |-> request,
              response |-> [status |-> 500, detail |-> existing.msg]]

\* SupabaseClient.set_budget from the answer of the select, and the rest of
\* the endpoint
set_budget_write(db, f, done) ==
    LET w == IF Len(f.existing) > 0
             THEN update_budget(db, f.existing[1].id, f.request.amount, done)
             ELSE db_insert(db, "budgets",
                            [user_id  |-> f.request.user_id,
                             category |-> f.request.category,
                             amount   |-> f.request.amount,
                             period   |-> f.request.period], done)
    IN  [db    |-> w.db,
         frame |-> [endpoint |-> "set_budget", pc |-> "Responded",
                    request |-> f.request,
                    response |-> IF w.out.ok
                                 THEN [status |-> 200, budget |-> w.out.val]
                                 ELSE [status |-> 500, detail |-> w.out.msg]]]

BudgetInit ==
    /\ NoRun
    /\ registry = SCHEMAS
    /\ lookup = Unset
    /\ store = <<>>
    /\ runs = <<>>
    /\ built = <<>>
    /\ requests = [w \in Workers |-> IdleFrame]
    /\ cache = <<>>
    /\ clock = 0
    /\ settings = DefaultSettings
    /\ startup = Unset
    /\ llm_client = Unset
    /\ voice_service = None

\* process w takes a POST /set request and sends the select
SetBudget(w, request, done) ==
    /\ requests[w].pc \in {"Idle", "Responded"}
    /\ Len(Rows(store, "budgets"))
          + Cardinality({v \in Workers : requests[v].pc = "Selected"})
          < MaxBudgets
    /\ requests' = [requests EXCEPT
                       ![w] = set_budget_select(store, request, done)]
    /\ UNCHANGED <<pc, user_input, input_method, calls, ext_out, val_out,
                   extracted, validated, result, clock, structured>>
    /\ UNCHANGED <<llm_client, settings, startup, registry, store,
                   voice_service, cache, others>>

\* process w sends the update or the insert and answers the request
SetBudgetWrites(w, done) ==
    /\ requests[w].pc = "Selected"
    /\ LET r == set_budget_write(store, requests[w], done)
       IN  /\ store' = r.db
           /\ requests' = [requests EXCEPT ![w] = r.frame]
    /\ UNCHANGED <<pc, user_input, input_method, calls, ext_out, val_out,
                   extracted, validated, result, clock, structured>>
    /\ UNCHANGED <<llm_client, settings, startup, registry,
                   voice_service, cache, others>>

BudgetNext ==
    \/ \E w \in Workers, request \in SetBudgetRequests, done \in BOOLEAN :
          SetBudget(w, request, done)
    \/ \E w \in Workers, done \in BOOLEAN : SetBudgetWrites(w, done)

BudgetSpec == BudgetInit /\ [][BudgetNext]_vars

\* ------------------------------------------------------------------------
\* Login (backend/api/auth.py, SupabaseClient user operations)
\* ------------------------------------------------------------------------
\* the most user rows the model lets the table hold
MaxUsers == 3

\* usernames as they arrive in a LoginRequest
RawUsernames == {"alice", "Alice", "bob"}

\* LoginRequest.username_must_be_valid: v.lower()
username_must_be_valid(v) == IF v = "Alice" THEN "alice" ELSE v

\* request.username.capitalize()
capitalize(v) ==
    IF v = "alice" THEN "Alice" ELSE IF v = "bob" THEN "Bob" ELSE v

\* SupabaseClient.get_user_by_username: a failed request gives None
get_user_by_username(db, username, done) ==
    LET found == SelectSeq(Rows(db, "users"), LAMBDA r : r.username = username)
    IN  IF done /\ Len(found) > 0 THEN found[1] ELSE None

\* SupabaseClient.create_user
create_user(db, username, display_name, done) ==
    db_insert(db, "users",
              [username |-> username, display_name |-> display_name,
               last_login |-> None], done)

\* SupabaseClient.update_user_last_login: a failed request is swallowed
update_user_last_login(db, user_id, now, done) ==
    IF ~done
    THEN db
    ELSE LET rows == Rows(db, "users")
         IN  WithRows(db, "users",
                      [i \in DOMAIN rows |->
                          IF rows[i].id = user_id
                          THEN [rows[i] EXCEPT !.last_login = now]
                          ELSE rows[i]])

\* create_access_token
create_access_token(user_id, username, now) ==
    [sub |-> user_id, username |-> username, iat |-> now,
     exp |-> now + 7 * TicksPerDay]

\* the login endpoint; read, upd and ins tell which of its database
\* requests the database answers
login(db, username, now, read, upd, ins) ==
    LET f    == [endpoint |-> "login", pc |-> "Responded",
                 username |-> username]
        user == get_user_by_username(db, username, read)
    IN  IF user # None
        THEN [db    |-> update_user_last_login(db, user.id, now, upd),
              frame |-> f @@
                        [created  |-> FALSE,
                         response |->
                            [status       |-> 200,
                             user_id      |-> user.id,
                             username     |-> user.username,
                             display_name |-> user.display_name,
                             access_token |->
                                create_access_token(user.id, user.username,
                                                    now)]]]
        ELSE LET c == create_user(db, username, capitalize(username), ins)
             IN  [db    |-> c.db,
                  frame |-> f @@
                        [created  |-> c.out.ok,
                         response |->
                            IF c.out.ok
                            THEN [status       |-> 200,
                                  user_id      |-> c.out.val.id,
                                  username     |-> c.out.val.username,
                                  display_name |-> c.out.val.display_name,
                                  access_token |->
                                     create_access_token(c.out.val.id,
                                                         c.out.val.username,
                                                         now)]
                            ELSE [status |-> 500,
                                  detail |-> "Authentication failed: "
                                                \o c.out.msg]]]

LoginInit ==
    /\ NoRun
    /\ registry = SCHEMAS
    /\ lookup = Unset
    /\ store = <<>>
    /\ runs = <<>>
    /\ built = <<>>
    /\ requests = <<>>
    /\ cache = <<>>
    /\ clock = 0
    /\ settings = DefaultSettings
    /\ startup = Unset
    /\ llm_client = Unset
    /\ voice_service = None

\* POST /login
Login(raw, read, upd, ins) ==
    /\ requests = <<>>
    /\ Len(Rows(store, "users")) < MaxUsers
    /\ LET r == login(store, username_must_be_valid(raw), clock, read, upd, ins)
       IN  /\ store' = r.db
           /\ requests' = <<r.frame>>
    /\ UNCHANGED <<pc, user_input, input_method, calls, ext_out, val_out,
                   extracted, validated, result, clock, structured>>
    /\ UNCHANGED <<llm_client, settings, startup, registry,
                   voice_service, cache, others>>

LoginNext ==
    \/ \E raw \in RawUsernames, read, upd, ins \in BOOLEAN :
          Login(raw, read, upd, ins)
    \/ ResponseSent
    \/ Tick

LoginSpec == LoginInit /\ [][LoginNext]_vars

\* ------------------------------------------------------------------------
\* Schemas (backend/llm/schemas.py)
\* ------------------------------------------------------------------------
\* v conforms to the "validated_data" sub-schema: an object whose four
\* required properties are present and typed number/string/string/string
SatisfiesValidatedDataSchema(v) ==
    /\ v.t = "obj"
    /\ {"amount", "category", "description", "date"} \subseteq DOMAIN v.o
    /\ v.o["amount"].t = "num"
    /\ \A k \in {"category", "description", "date"} : v.o[k].t = "str"

\* v conforms to EXPENSE_VALIDATION_SCHEMA
SatisfiesValidationSchema(v) ==
    /\ v.t = "obj"
    /\ {"is_valid", "validated_data", "errors"} \subseteq DOMAIN v.o
    /\ v.o["is_valid"].t = "bool"
    /\ SatisfiesValidatedDataSchema(v.o["validated_data"])
    /\ v.o["errors"].t = "arr"
    /\ \A i \in 1..Len(v.o["errors"].a) : v.o["errors"].a[i].t = "str"
    /\ "suggestions" \in DOMAIN v.o =>
          /\ v.o["suggestions"].t = "obj"
          /\ \A k \in DOMAIN v.o["suggestions"].o \cap {"category", "description"} :
                 v.o["suggestions"].o[k].t = "str"

\* ------------------------------------------------------------------------
\* Properties
\* ------------------------------------------------------------------------
\* the JSON value the backend returned for a request, when it returned one
Answered(out) == out # Unset /\ out.kind = "text" /\ out.json

\* the backend request failed: generate raised or the text was not JSON
CallFailed(out) == out # Unset /\ (out.kind = "raise" \/ ~out.json)

\* str(e) of the exception generate_structured raises on a failed request
CauseOf(out) ==
    IF out.kind = "raise"
    THEN out.msg
    ELSE "Invalid JSON response from LLM: Expecting value: line 1 column 1 (char 0)"

\* the run has an extraction result, and this is its intent
IntentIs(v) == extracted # Unset /\ "intent" \in DOMAIN extracted.o
               /\ extracted.o["intent"] = v

\* C1: a returned result has success = true only if the extraction result's
\* intent was add_expense and the validation result's is_valid was true.
C1_SuccessImpliesAddExpenseAndValid ==
    (pc \in Terminal /\ result.success) =>
        /\ IntentIs(JStr("add_expense"))
        /\ validated # Unset
        /\ "is_valid" \in DOMAIN validated.o
        /\ validated.o["is_valid"] = JBool(TRUE)

\* C2: every returned result carries exactly one of data/error: data and no
\* error when success is true, an error and no data when success is false.
C2_ExactlyOneOfDataError ==
    pc \in Terminal =>
        IF result.success
        THEN result.data # None /\ result.error = None
        ELSE result.data = None /\ result.error # None /\ result.error.t = "str"

C2_Witness ==
    /\ pc = "ValidationFailed"
    /\ val_out # Unset /\ val_out.kind = "raise"
    /\ ~result.success /\ result.data = None

\* C3: once the extraction result's intent is set_budget, query_expenses or
\* unknown, the run has ended with success = false and has issued exactly
\* one backend request, the extraction request, and no validation request.
C3_IntentGating ==
    (\E i \in {"set_budget", "query_expenses", "unknown"} : IntentIs(JStr(i))) =>
        /\ pc \in {"IntentUnknown", "WrongIntent"}
        /\ ~result.success
        /\ Len(calls) = 1
        /\ calls[1].stage = "extraction"
        /\ val_out = Unset

C3_Witness ==
    /\ pc = "WrongIntent"
    /\ IntentIs(JStr("set_budget"))
    /\ Len(calls) = 1

\* C4: when extraction succeeds with intent unknown the run returns
\* (False, None, "Could not determine intent from input").
C4_UnknownIntentError ==
    IntentIs(JStr("unknown")) =>
        /\ pc = "IntentUnknown"
        /\ result = [success |-> FALSE, data |-> None,
                     error |-> JStr("Could not determine intent from input")]

C4_Witness ==
    /\ pc = "IntentUnknown"
    /\ IntentIs(JStr("unknown"))
    /\ ~result.success

\* C5: when extraction succeeds with an intent other than add_expense and
\* unknown the run returns success = false with the error "This pipeline only
\* handles expenses, got intent: " followed by the intent.
C5_WrongIntentError ==
    (/\ extracted # Unset
     /\ "intent" \in DOMAIN extracted.o
     /\ extracted.o["intent"] \notin {JStr("add_expense"), JStr("unknown")}) =>
        /\ pc = "WrongIntent"
        /\ ~result.success
        /\ result.data = None
        /\ extracted.o["intent"].t = "str" =>
              result.error =
                  JStr("This pipeline only handles expenses, got intent: "
                       \o extracted.o["intent"].s)

C5_Witness ==
    /\ pc = "WrongIntent"
    /\ IntentIs(JStr("query_expenses"))
    /\ result.error =
           JStr("This pipeline only handles expenses, got intent: query_expenses")

RECURSIVE ErrorsUpTo(_, _)
\* the first n error strings of a, each but the first preceded by "; "
ErrorsUpTo(a, n) ==
    IF n = 1 THEN a[1].s ELSE ErrorsUpTo(a, n - 1) \o "; " \o a[n].s

\* the validation result says is_valid = false and lists at least one error,
\* all of them strings
RejectedWithErrors ==
    /\ validated # Unset
    /\ "is_valid" \in DOMAIN validated.o
    /\ validated.o["is_valid"] = JBool(FALSE)
    /\ "errors" \in DOMAIN validated.o
    /\ validated.o["errors"].t = "arr"
    /\ Len(validated.o["errors"].a) > 0
    /\ \A i \in 1..Len(validated.o["errors"].a) :
           validated.o["errors"].a[i].t = "str"

\* C6: when the validation result has is_valid = false and a non-empty list
\* of error strings, the run returns success = false with the error
\* "Validation failed: " followed by the errors in order, joined by "; ".
C6_FailClosedOnInvalid ==
    RejectedWithErrors =>
        /\ pc = "ValidationFailed"
        /\ result =
             [success |-> FALSE, data |-> None,
              error |-> JStr("Validation failed: "
                             \o ErrorsUpTo(validated.o["errors"].a,
                                           Len(validated.o["errors"].a)))]

C6_Witness ==
    /\ RejectedWithErrors
    /\ Len(validated.o["errors"].a) = 2
    /\ result.error =
           JStr("Validation failed: date is invalid; amount must be positive")

\* C7: when the extraction request fails (connection failure, timeout,
\* non-success status, malformed JSON) the run returns success = false with
\* the error "Failed to extract expense data: <cause>" and no validation
\* request is issued.
C7_ExtractionFailure ==
    CallFailed(ext_out) =>
        /\ pc = "ExtractionFailed"
        /\ result = [success |-> FALSE, data |-> None,
                     error |-> JStr("Failed to extract expense data: "
                                    \o CauseOf(ext_out))]
        /\ Len(calls) = 1
        /\ calls[1].stage = "extraction"
        /\ val_out = Unset

C7_Witness ==
    /\ pc = "ExtractionFailed"
    /\ ext_out.kind = "text" /\ ~ext_out.json
    /\ ~result.success

\* C8: when extraction succeeded with intent add_expense and the validation
\* request fails, the run returns success = false with the error "Failed to
\* validate expense data: <cause>".
C8_ValidationFailure ==
    CallFailed(val_out) =>
        /\ IntentIs(JStr("add_expense"))
        /\ pc = "ValidationFailed"
        /\ result = [success |-> FALSE, data |-> None,
                     error |-> JStr("Failed to validate expense data: "
                                    \o CauseOf(val_out))]
        /\ result.error # JStr("Failed to extract expense data: "
                                \o CauseOf(val_out))

C8_Witness ==
    /\ pc = "ValidationFailed"
    /\ val_out # Unset /\ val_out.kind = "raise" /\ val_out.type = "ReadTimeout"
    /\ result.error = JStr("Failed to validate expense data: ")

\* C9: for a validation response that satisfies the validation schema with
\* is_valid = true, the run succeeds and the normalized fields of the result
\* equal the normalized fields of the response.
C9_NormalizedFieldsPassThrough ==
    (/\ Answered(val_out)
     /\ SatisfiesValidationSchema(val_out.value)
     /\ val_out.value.o["is_valid"] = JBool(TRUE)) =>
        /\ pc = "ValidatedOK"
        /\ result.success
        /\ result.data.o["validated_data"] = val_out.value.o["validated_data"]

C9_Witness ==
    /\ pc = "ValidatedOK"
    /\ Answered(val_out)
    /\ SatisfiesValidationSchema(val_out.value)
    /\ result.data.o["validated_data"].o["amount"] = JNum(50)

\* the "extracted_data" object of the extraction response; {} when absent
ResponseFields ==
    IF "extracted_data" \in DOMAIN ext_out.value.o
    THEN ext_out.value.o["extracted_data"]
    ELSE EmptyDict

\* C10: on success the result data carries the raw_input and input_method of
\* the call, the extraction response's fields, the validation response's
\* suggestions, and the extraction fields' confidence, or 0 when the
\* extraction response has no confidence.
C10_ResultAssembly ==
    pc = "ValidatedOK" =>
        /\ result.data.o["raw_input"] = user_input
        /\ result.data.o["input_method"] = input_method
        /\ result.data.o["extracted_data"] = ResponseFields
        /\ result.data.o["suggestions"] =
               (IF "suggestions" \in DOMAIN val_out.value.o
                THEN val_out.value.o["suggestions"]
                ELSE EmptyDict)
        /\ result.data.o["confidence"] =
               (IF "confidence" \in DOMAIN ResponseFields.o
                THEN ResponseFields.o["confidence"]
                ELSE JNum(0))

C10_Witness ==
    /\ pc = "ValidatedOK"
    /\ "amount" \in DOMAIN ResponseFields.o
    /\ "confidence" \notin DOMAIN ResponseFields.o
    /\ result.data.o["confidence"] = JNum(0)
    /\ result.data.o["input_method"] = JStr("voice")

\* C11: no call of process_expense_input or of an entry point ends with an
\* exception at the caller: every call that has ended has returned a
\* (success, data, error) tuple.
C11_NeverRaisesPastBoundary ==
    /\ pc # "Raised"
    /\ pc \in Terminal => result # Unset /\ result.success \in BOOLEAN

\* the outcome of the i-th backend request of the run
OutcomeAt(i) == IF i = 1 THEN ext_out ELSE val_out

\* what the requests of a run look like at any moment
OneShotCalls ==
    /\ Len(calls) <= 2
    /\ Len(calls) >= 1 => calls[1].stage = "extraction"
    /\ Len(calls) = 2 =>
          /\ calls[2].stage = "validation"
          /\ Answered(ext_out)
          /\ extracted # Unset
    /\ CallFailed(ext_out) => Len(calls) = 1 /\ pc = "ExtractionFailed"
    /\ val_out # Unset => Len(calls) = 2 /\ pc \in Terminal

\* C12: the stages of a run are sequential and one-shot: the validation
\* request is issued only after the extraction request has been answered, each
\* stage issues at most one request, and a step in which a request fails, or
\* any step of a run that has ended, issues no request.
C12_SequentialOneShot ==
    /\ []OneShotCalls
    /\ [][/\ (CallFailed(ext_out') \/ CallFailed(val_out')) =>
                 (calls' = calls \/ calls' = <<>>)
          /\ pc \in Terminal => (calls' = calls \/ calls' = <<>>)
          /\ Len(calls') > Len(calls) =>
                 \/ pc = "Start" /\ Len(calls') = 1
                 \/ pc = "Extracting" /\ Answered(ext_out') /\ Len(calls') = 2]_vars

C12_Witness ==
    /\ pc = "ValidationFailed"
    /\ CallFailed(val_out)
    /\ Len(calls) = 2
    /\ Answered(ext_out)

\* the date texts of the model that match ^\d{4}-\d{2}-\d{2}$
IsoDates == {"2024-01-14"}

\* the four normalized fields are present and well-typed
WellTypedFields(v) ==
    /\ v.t = "obj"
    /\ {"amount", "category", "description", "date"} \subseteq DOMAIN v.o
    /\ v.o["amount"].t = "num" /\ v.o["amount"].n > 0
    /\ v.o["category"].t = "str" /\ v.o["category"].s \in Categories
    /\ v.o["description"].t = "str"
    /\ v.o["date"].t = "str" /\ v.o["date"].s \in IsoDates

\* C13: every validation result the pipeline accepts, and so every
\* successful result, carries the four normalized fields, well-typed:
\* amount > 0, category in the fixed set, date of the form YYYY-MM-DD.
C13_AcceptedFieldsWellTyped ==
    pc = "ValidatedOK" =>
        /\ "validated_data" \in DOMAIN validated.o
        /\ WellTypedFields(validated.o["validated_data"])
        /\ WellTypedFields(result.data.o["validated_data"])

\* each generate_structured invocation of the run has issued one generate
\* request, with json_mode = True; a failure of generate comes out unchanged
OneGeneratePerInvocation ==
    /\ Len(structured) <= Len(calls)
    /\ Len(calls) <= Len(structured) + 1
    /\ \A i \in 1..Len(calls) : calls[i].request.json_mode = TRUE
    /\ \A i \in 1..Len(structured) :
           OutcomeAt(i).kind = "raise" =>
               structured[i] = [ok |-> FALSE, type |-> OutcomeAt(i).type,
                                msg |-> OutcomeAt(i).msg]

RequiredKey(name) ==
    CASE Lower(name) = "groq"   -> "GROQ_API_KEY"
      [] Lower(name) = "openai" -> "OPENAI_API_KEY"
      [] OTHER                  -> "none"

\* the required key of the configured provider is set
CredentialSet ==
    RequiredKey(settings.LLM_PROVIDER.s) = "none"
    \/ settings[RequiredKey(settings.LLM_PROVIDER.s)] # None

\* C15: the factory returns a client for every supported provider (ollama,
\* groq, openai) whose required key is set, fails with an unsupported-provider
\* error for any other name, and with a missing-credential error when the
\* required key of the selected provider is unset.
C15_FactoryContract ==
    llm_client # Unset =>
        IF Lower(settings.LLM_PROVIDER.s) \notin SupportedProviders
        THEN /\ ~llm_client.ok
             /\ llm_client.msg
                    = "Unknown LLM provider: " \o Lower(settings.LLM_PROVIDER.s)
        ELSE IF CredentialSet
             THEN llm_client.ok
             ELSE /\ ~llm_client.ok
                  /\ llm_client.msg
                         = RequiredKey(settings.LLM_PROVIDER.s) \o " not configured"

\* C16: once validate_config() has accepted the settings, get_llm_client()
\* returns a client.
C16_ValidatedConfigYieldsClient ==
    (startup # Unset /\ startup.ok /\ llm_client # Unset) => llm_client.ok

\* C17: get_schema returns the schema registered under each of the four
\* names and fails for every other name; get_all_function_schemas returns
\* exactly the two action schemas; the registry never changes.
C17_SchemaRegistry ==
    /\ registry = [add_expense |-> ADD_EXPENSE_SCHEMA,
                   set_budget  |-> SET_BUDGET_SCHEMA,
                   extraction  |-> EXPENSE_EXTRACTION_SCHEMA,
                   validation  |-> EXPENSE_VALIDATION_SCHEMA]
    /\ (lookup # Unset /\ lookup.fn = "get_schema") =>
          CASE lookup.name = "extraction" ->
                   lookup.out = [ok |-> TRUE, val |-> EXPENSE_EXTRACTION_SCHEMA]
            [] lookup.name = "validation" ->
                   lookup.out = [ok |-> TRUE, val |-> EXPENSE_VALIDATION_SCHEMA]
            [] lookup.name = "add_expense" ->
                   lookup.out = [ok |-> TRUE, val |-> ADD_EXPENSE_SCHEMA]
            [] lookup.name = "set_budget" ->
                   lookup.out = [ok |-> TRUE, val |-> SET_BUDGET_SCHEMA]
            [] OTHER ->
                   ~lookup.out.ok /\ lookup.out.type = "ValueError"
    /\ (lookup # Unset /\ lookup.fn = "get_all_function_schemas") =>
          /\ lookup.out.ok
          /\ Len(lookup.out.val) = 2
          /\ {lookup.out.val[i] : i \in 1..2}
                 = {ADD_EXPENSE_SCHEMA, SET_BUDGET_SCHEMA}
          /\ \A i \in 1..2 :
                 lookup.out.val[i] \notin {EXPENSE_EXTRACTION_SCHEMA,
                                           EXPENSE_VALIDATION_SCHEMA}

C17_Witness ==
    /\ lookup # Unset
    /\ lookup.fn = "get_schema"
    /\ lookup.name = "expense"
    /\ ~lookup.out.ok
    /\ llm_client # Unset

\* C20: two calls of the same prompt builder with identical arguments give
\* identical {system, user} output, whenever they happen and whatever
\* happens in between.
C20_BuildersDeterministic ==
    \A i \in DOMAIN built : \A j \in DOMAIN built :
        (built[i].fn = built[j].fn /\ built[i].args = built[j].args)
            => built[i].out = built[j].out

\* the tuple process_expense_input(input, method) returns when it runs
\* alone and the backend answers its two requests with eo and vo
SoloResult(input, method, eo, vo, now) ==
    LET e == extract_expense_data(input, method, eo, now)
    IN  IF ~e.ok THEN PipelineError(e)
        ELSE IF IntentGate(e.val) # Unset THEN IntentGate(e.val)
        ELSE IF ~validation_prompt(e.val, input).ok
             THEN PipelineError(validation_prompt(e.val, input))
        ELSE LET v == validate_expense_data(e.val, vo, now)
             IN  IF ~v.ok THEN PipelineError(v)
                 ELSE LET c == CheckValidation(input, method, e.val, v.val, now)
                      IN  IF c.ok THEN c.val ELSE PipelineError(c)

\* the finished coroutine r has the result of a run alone
AsAlone(r) ==
    runs[r].pc \in Terminal =>
        runs[r].result = SoloResult(runs[r].user_input, runs[r].input_method,
                                    runs[r].ext_out, runs[r].val_out, clock)

\* a step touches the frame of one coroutine and nothing shared
OneFrameStep ==
    /\ \A q \in 1..NumRuns : \A r \in 1..NumRuns :
           (q # r /\ runs'[q] # runs[q]) => runs'[r] = runs[r]
    /\ UNCHANGED <<llm_client, settings, registry, store>>

\* C18: under every interleaving of process_expense_input runs, each run's
\* result is the one it produces alone from its own input and the answers
\* to its own two requests, and no step of a run touches another run's
\* frame or shared state.
C18_RunsIndependent ==
    /\ [](\A r \in 1..NumRuns : AsAlone(r))
    /\ [][OneFrameStep]_vars

\* two coroutines are alive with different inputs and extractions, one of
\* them finished with success
C18_Witness ==
    /\ runs[1].pc = "Validating"
    /\ runs[2].pc = "ValidatedOK"
    /\ runs[1].user_input # runs[2].user_input
    /\ runs[1].extracted # runs[2].extracted
    /\ runs[2].result.success

\* the frame a first call on a fresh instance has at the point frame f is
\* at, given f's arguments and the answers f's requests got
Replay(f) ==
    IF f.pc = "Start" THEN FreshRun
    ELSE LET a == StartRun(FreshRun, f.user_input, f.input_method, clock)
         IN  IF f.ext_out = Unset THEN a
             ELSE LET b == AfterExtraction(a, f.ext_out, clock)
                  IN  IF f.val_out = Unset THEN b
                      ELSE AfterValidation(b, b.extracted, f.val_out, clock)

\* a call made after an earlier call on the instance is where a first call is
LikeFresh(r) ==
    runs[r].reused => [runs[r] EXCEPT !.reused = FALSE] = Replay(runs[r])

\* C19: process_expense_input never calls the persistence collaborator and
\* the instance keeps nothing between invocations: a call made after an
\* earlier one has finished goes exactly as a first call on a fresh
\* instance, and the instance's client is never reassigned.
C19_NoStateBetweenInvocations ==
    /\ [](store = <<>>)
    /\ [](\A r \in 1..NumRuns : LikeFresh(r))
    /\ [][llm_client' = llm_client /\ store' = store]_vars

\* a call made after an earlier one on the instance has succeeded
C19_Witness ==
    /\ runs[1].reused
    /\ runs[1].pc = "ValidatedOK"
    /\ runs[1].result.success
    /\ store = <<>>

\* the validation result is not valid (is_valid false, null or absent) and
\* has no errors field
RejectedWithoutErrors ==
    /\ validated # Unset
    /\ "errors" \notin DOMAIN validated.o
    /\ \/ "is_valid" \notin DOMAIN validated.o
       \/ validated.o["is_valid"] \in {JBool(FALSE), None}

\* C29: a validation result that is not valid and has no errors field (also
\* one without is_valid) fails closed with the error "Validation failed:
\* Unknown validation error", and every failure result carries a non-empty
\* error string.
C29_DefaultErrorOnRejection ==
    /\ RejectedWithoutErrors =>
           /\ pc = "ValidationFailed"
           /\ result = [success |-> FALSE, data |-> None,
                        error |-> JStr("Validation failed: Unknown validation error")]
    /\ (result # Unset /\ ~result.success) =>
           /\ result.data = None
           /\ result.error.t = "str"
           /\ result.error.s # ""

C29_Witness ==
    /\ RejectedWithoutErrors
    /\ "is_valid" \notin DOMAIN validated.o
    /\ result.error = JStr("Validation failed: Unknown validation error")

\* the moves of a run between Start, the two awaits and the five outcomes
PcMoves ==
    {<<"Start", "Extracting">>,
     <<"Extracting", "ExtractionFailed">>,
     <<"Extracting", "IntentUnknown">>,
     <<"Extracting", "WrongIntent">>,
     <<"Extracting", "Validating">>,
     <<"Extracting", "ValidationFailed">>,
     <<"Validating", "ValidationFailed">>,
     <<"Validating", "ValidatedOK">>}

\* a step moves a run along PcMoves; the caller's moves are the failed
\* construction and the hand-over of the tuple
PcStep ==
    pc' # pc =>
        \/ <<pc, pc'>> \in PcMoves
        \/ pc' = "Start" /\ pc \in Terminal \cup {"Raised"}
        \/ pc = "Start" /\ pc' = "Raised"

\* past the intent check: the extraction succeeded (ExtractedOK)
ExtractedOK == extracted # Unset /\ ext_out # Unset /\ Answered(ext_out)

\* C23: provided each backend request returns or fails, every run of
\* process_expense_input ends in one of ExtractionFailed, IntentUnknown,
\* WrongIntent, ValidationFailed, ValidatedOK, reached only along
\* Start -> Extracting -> ExtractedOK -> Validating, and only ValidatedOK
\* has success = true.
C23_RunTerminates ==
    /\ (pc = "Extracting") ~> (pc \in Terminal)
    /\ [][PcStep]_vars
    /\ [](pc \in {"IntentUnknown", "WrongIntent", "Validating", "ValidatedOK"}
              => ExtractedOK)
    /\ [](pc \in Terminal <=> result # Unset)
    /\ [](result # Unset => (result.success <=> pc = "ValidatedOK"))

C23_Witness ==
    /\ pc = "ValidatedOK"
    /\ ExtractedOK
    /\ Len(calls) = 2
    /\ result.success

\* C24: with the Ollama backend the extraction request names the configured
\* extraction model and the validation request names the configured
\* validation model.
C24_StageModels ==
    (llm_client # Unset /\ llm_client.ok
        /\ llm_client.val.class = "OllamaClient") =>
        \A i \in DOMAIN built :
            built[i].payload.model =
                IF built[i].stage = "extraction"
                THEN settings.OLLAMA_MODEL_EXTRACTION
                ELSE settings.OLLAMA_MODEL_VALIDATION

\* the handler of POST /add has answered
FromTextAnswered ==
    /\ requests # <<>>
    /\ requests[1].endpoint = "add_expense_from_text"
    /\ requests[1].pc = "Responded"

\* the handler of POST /add holds an extraction result with intent i
FromTextIntent(i) ==
    /\ requests # <<>>
    /\ requests[1].endpoint = "add_expense_from_text"
    /\ requests[1].extracted # Unset
    /\ Get(requests[1].extracted, "intent", JStr("unknown")) = JStr(i)

\* C21: in add_expense_from_text, for an extraction result with intent
\* set_budget, query_expenses or unknown no validation request is issued and
\* no database write happens.
C21_EndpointIntentGate ==
    (\E i \in {"set_budget", "query_expenses", "unknown"} : FromTextIntent(i)) =>
        /\ Len(requests[1].calls) = 1
        /\ requests[1].db_calls = <<>>

\* the request to POST /add came to nothing: extraction failed, validation
\* failed, or the validation result has is_valid false or absent
Rejected(f) ==
    /\ f.endpoint = "add_expense_from_text"
    /\ f.pc = "Responded"
    /\ \/ f.extracted = Unset
       \/ f.validated = Unset
       \/ "is_valid" \notin DOMAIN f.validated.o
       \/ f.validated.o["is_valid"] = JBool(FALSE)

\* C22: add_expense_from_text calls neither db.add_expense nor
\* db.add_calendar_entry when extraction fails, validation fails or is_valid
\* is false or absent; the request ends in an error response and the store
\* is as it was.
C22_NoWriteUnlessValid ==
    /\ []((requests # <<>> /\ Rejected(requests[1])) =>
              /\ requests[1].db_calls = <<>>
              /\ requests[1].response.status \in {400, 500})
    /\ [][(requests' # <<>> /\ Rejected(requests'[1])) => store' = store]_vars

C22_Witness ==
    /\ requests # <<>>
    /\ Rejected(requests[1])
    /\ requests[1].validated # Unset
    /\ "is_valid" \notin DOMAIN requests[1].validated.o
    /\ "validated_data" \in DOMAIN requests[1].validated.o
    /\ requests[1].response.status = 400
    /\ store = <<>>

\* ids of the expense rows the answered request inserted
InsertedExpenses(f) ==
    {f.db_calls[i].id : i \in {j \in DOMAIN f.db_calls :
                                 f.db_calls[j].fn = "add_expense"
                                 /\ f.db_calls[j].ok}}

\* calendar entries that reference the expense id
EntriesOf(id) ==
    {j \in DOMAIN Rows(store, "calendar_entries") :
        Rows(store, "calendar_entries")[j].expense_id = id}

C27_ServiceHasRequestedMode ==
    (requests # <<>>
        /\ requests[1].endpoint \in {"transcribe_audio", "voice.transcribe_audio"}
        /\ requests[1].mode \in VoiceModes
        /\ requests[1].service # Unset) =>
        requests[1].service.mode = requests[1].mode

\* a get_city_data call begins in this step
CityCallBegins == requests = <<>> /\ requests' # <<>>

\* a get_city_data call gets its return value in this step
CityCallReturns ==
    /\ requests' # <<>>
    /\ requests' # requests
    /\ requests'[1].pc = "Responded"

\* a get_city_data call returns in this step from a fetch that failed
CityFetchFails ==
    /\ requests # <<>>
    /\ requests[1].pc = "Fetching"
    /\ CityCallReturns
    /\ requests'[1].response.source # "rapidapi"

BudgetKey(r) == <<r.user_id, r.category, r.period>>

\* the rows of the budgets table
BudgetRows == Rows(store, "budgets")

\* at most one budget row per (user_id, category, period)
OneRowPerBudgetKey ==
    \A i, j \in DOMAIN BudgetRows :
        BudgetKey(BudgetRows[i]) = BudgetKey(BudgetRows[j]) => i = j

\* a step that inserts a budget row inserts it for a key that had no row
InsertsOnlyNewKey ==
    Len(BudgetRows') > Len(BudgetRows) =>
        \A i \in DOMAIN BudgetRows :
            BudgetKey(BudgetRows[i]) # BudgetKey(BudgetRows'[Len(BudgetRows) + 1])

\* C25: at every moment there is at most one budget row per
\* (user_id, category, period), also while set_budget calls run
\* concurrently, and a call for a key that has a row inserts no new row.
C25_BudgetUpsert == []OneRowPerBudgetKey /\ [][InsertsOnlyNewKey]_vars

\* the rows of the users table
UserRows == Rows(store, "users")

\* at most one user row per username
OneUserPerName ==
    \A i, j \in DOMAIN UserRows :
        UserRows[i].username = UserRows[j].username => i = j

\* a login for a username that has a row answers with that row's user and
\* creates no user
LoginReturnsExisting ==
    (requests = <<>> /\ requests' # <<>>) =>
        \A i \in DOMAIN UserRows :
            UserRows[i].username = requests'[1].username =>
                /\ Len(UserRows') = Len(UserRows)
                /\ requests'[1].response.status = 200
                /\ requests'[1].response.user_id = UserRows[i].id

\* C26: a login for an existing username returns that user with a token and
\* creates no user, so there is at most one user per username after any
\* sequence of logins, also when a database read fails during a login.
C26_LoginGetOrCreate == []OneUserPerName /\ [][LoginReturnsExisting]_vars

====
